---- MODULE Spec2Model ----
(***************************************************************************)
(* Smart click controller of ufo/automator/ui_control:                     *)
(* SmartClickController.smart_click_with_retry and the two query objects   *)
(* it consults, FocusChangeDetector and ElementStabilityChecker.           *)
(*                                                                         *)
(* One request is a sequence of steps of the single-threaded code: Call    *)
(* (reset and baselines), OriginalAttempt, ResolveCoordinates, then one    *)
(* GridProbe per iteration of the inner loop, TierEnd at the end of each   *)
(* inner loop and ReturnExhausted.  What the host reports when the code    *)
(* reads it (window handle, focused element, rectangles) and what the      *)
(* click primitive does are inputs of the step that reads them: the host   *)
(* may change at any time, so every sequence of reads is possible.         *)
(***************************************************************************)
EXTENDS Integers, Sequences, FiniteSets, TLC

VARIABLES
    config,                \* self.config
    click_attempts,        \* self.click_attempts
    focus_detector,        \* self.focus_detector (initial_window_handle, initial_focus_element)
    element_checker,       \* self.element_checker: <<>> is None, <<c>> a checker
    request,               \* arguments of the running call
    pc,                    \* position of the call
    result,                \* local variable result of the running call
    returned,              \* value the call returned
    center,                \* resolved target coordinates, <<>> while there are none
    window_seen,           \* what application_window.rectangle() gave _extract_coordinates_from_params
    tier,                  \* index into retry_offsets of the outer loop
    dir,                   \* index into retry_directions of the inner loop
    consecutive_failures,  \* local variable of _perform_grid_retry
    clicks,                \* history: invocations of the click primitive in this request
    last_click,            \* history: the last invocation (its params, outcome, what the host showed)
    unstable_reported,     \* history: a stability consultation of this request answered False
    baseline_origin,       \* history: when the focus baseline held by focus_detector was captured
    fn,                    \* the query function applied last ("none" before the first)
    fn_args,               \* ... its arguments
    fn_out,                \* ... what it returned
    MAX_RETRIES,           \* UIABackendStrategy.MAX_RETRIES
    uia_pc,                \* position of UIABackendStrategy.find_control_elements_in_descendants
    uia_args,              \* arguments of the running call
    retry_count,           \* loop variable of the call
    uia_events,            \* history: what the call did, in order
    uia_result,            \* what the call returned
    _instances,            \* ControlInspectorFacade._instances
    strategies_built,      \* history: backend strategies BackendFactory has built
    constructed,           \* the last construction request and what it gave
    _time_delay_marker,    \* UIAElementInfoFix._time_delay_marker
    last_timed,            \* history: the last timed accessor call since the last sleep
    paused,                \* the last sleep: what was requested and what was slept
    element_info,          \* one UIAElementInfoFix: its origin and its caches
    live_rect,             \* the rectangle the provider holds for that element now
    provider_queries,      \* history: rectangle queries sent to the provider for it
    rectangle_read,        \* the last value its rectangle property gave
    threads                \* the threads inside ControlInspectorFacade.__new__: position and locals

clickVars == <<config, click_attempts, focus_detector, element_checker, request, pc,
               result, returned, center, window_seen, tier, dir, consecutive_failures,
               clicks, last_click, unstable_reported, baseline_origin>>
fnVars == <<fn, fn_args, fn_out>>
uiaVars == <<MAX_RETRIES, uia_pc, uia_args, retry_count, uia_events, uia_result>>
inspVars == <<_instances, strategies_built, constructed, _time_delay_marker, last_timed,
              paused, element_info, live_rect, provider_queries, rectangle_read, threads>>
vars == <<clickVars, fnVars, uiaVars, inspVars>>

---------------------------------------------------------------------------
(* Bounds of the model *)

MaxTiers == 2         \* small configurations have 1..MaxTiers distance tiers
MaxDirs == 2          \* ... and MaxDirs directions
MaxRetriesCfg == 2    \* ... and max_retries 0, MaxRetriesCfg or the default
MaxCheckCount == 2    \* ... and element_stability_check_count 1 or MaxCheckCount
MaxRaiseAt == 1       \* the click primitive may raise in the first MaxRaiseAt attempts
MaxPolls == 1         \* polls of one success check (timeout / 0.05 s in the code)
MAX_RETRY_ATTEMPTS == 3

MaxWindowFailAt == 2  \* the window rectangle may be unreadable in the first MaxWindowFailAt attempts

---------------------------------------------------------------------------
(* Values *)

None == "None"
EXC == "EXC"          \* a read that raises

\* RECT values; a read is [exc |-> BOOLEAN, rect |-> <<left, top, right, bottom>>]
Rect(l, t, r, b) == <<l, t, r, b>>
RectOk(rc) == [exc |-> FALSE, rect |-> rc]
RectExc == [exc |-> TRUE, rect |-> <<>>]
ControlRect == Rect(10, 10, 110, 60)
MovedRect == Rect(11, 10, 110, 60)
WindowRect == Rect(0, 0, 800, 600)
ZeroWidthWindowRect == Rect(0, 0, 0, 600)

width(rc) == rc[3] - rc[1]
height(rc) == rc[4] - rc[2]

\* A click parameter value: absent, not a number, or the fraction num/den
Absent == [kind |-> "absent", num |-> 0, den |-> 1]
NotANumber == [kind |-> "bad", num |-> 0, den |-> 1]
Frac(n, d) == [kind |-> "num", num |-> n, den |-> d]

ClickAttempt(x, y, success, error_message) ==
    [x |-> x, y |-> y, success |-> success, error_message |-> error_message]

AllDirections ==
    << <<0, -1>>, <<1, -1>>, <<1, 0>>, <<1, 1>>, <<0, 1>>, <<-1, 1>>, <<-1, 0>>, <<-1, -1>> >>

SmartClickConfig ==
    [max_retries |-> 24,
     retry_offsets |-> <<5, 10, 15>>,
     retry_directions |-> AllDirections,
     element_stability_check_count |-> 3]

\* The configurations a controller is constructed with: the default and small ones.
Configs ==
    {SmartClickConfig} \cup
    {[max_retries |-> m,
      retry_offsets |-> [i \in 1..t |-> 5 * i],
      retry_directions |-> [i \in 1..MaxDirs |-> AllDirections[((i - 1) % 8) + 1]],
      element_stability_check_count |-> n] :
        m \in {0, MaxRetriesCfg, SmartClickConfig.max_retries},
        t \in 1..MaxTiers, n \in {1, MaxCheckCount}}

\* The arguments of a call
Params(x, y) == [x |-> x, y |-> y]
CallArguments(params, control, target_coordinates) ==
    [params |-> params, control |-> control, target_coordinates |-> target_coordinates]
ArgumentSet ==
    {CallArguments(p, c, <<>>) :
        p \in {Params(Absent, Absent), Params(Frac(1, 2), Absent),
               Params(NotANumber, Frac(1, 2)), Params(Frac(1, 2), Frac(1, 2))},
        c \in BOOLEAN} \cup
    {CallArguments(p, c, <<200, 100>>) :
        p \in {Params(Absent, Absent), Params(Frac(1, 2), Frac(1, 2))},
        c \in BOOLEAN}

\* What the host shows at one poll of the success check
Observation(h, f) == [handle |-> h, focus |-> f]
PollObservations ==
    {Observation("h1", None), Observation("h1", "e1"),
     Observation("h1", "e2"), Observation("h2", "e1")}
PollSeqs == UNION {[1..n -> PollObservations] : n \in 1..MaxPolls}

\* What the click primitive does when called as attempt number k of a request
ClickReturns == [raises |-> FALSE, text |-> "clicked"]
ClickRaises == [raises |-> TRUE, text |-> "click error"]
ClickOutcomes(k) == IF k <= MaxRaiseAt THEN {ClickReturns, ClickRaises} ELSE {ClickReturns}

\* Messages: text, and the attempt count the text carries (0 when it carries none)
PlainMessage(text) == [text |-> text, attempts |-> 0]
ExhaustedMessage(n) == [text |-> "Click failed after {n} retry attempts", attempts |-> n]
NoMessage == PlainMessage("")

---------------------------------------------------------------------------
(* FocusChangeDetector *)

FocusChangeDetector == [initial_window_handle |-> None, initial_focus_element |-> None]

\* handle_read, focus_read: the value read, or EXC
capture_initial_state(self, handle_read, focus_read) ==
    IF handle_read = EXC
    THEN self
    ELSE [initial_window_handle |-> handle_read,
          initial_focus_element |-> IF focus_read = EXC THEN None ELSE focus_read]

\* application_window: [is_none |-> TRUE] for None, else the window with what its
\* handle reads; focus_read: what Desktop.get_focus() gives
NoneWindow == [is_none |-> TRUE, handle |-> EXC]
Window(h) == [is_none |-> FALSE, handle |-> h]

\* the focused element never compared
HasFocusChangedHandleOnly(self, application_window, focus_read) ==
    IF application_window.is_none \/ application_window.handle = EXC
    THEN FALSE
    ELSE application_window.handle # self.initial_window_handle

has_focus_changed(self, application_window, focus_read) ==
    IF application_window.is_none \/ application_window.handle = EXC
    THEN FALSE
    ELSE IF application_window.handle # self.initial_window_handle
    THEN TRUE
    ELSE IF focus_read = EXC
    THEN FALSE
    ELSE IF self.initial_focus_element = None /\ focus_read # None
    THEN TRUE
    ELSE IF self.initial_focus_element # None /\ focus_read = None
    THEN TRUE
    ELSE self.initial_focus_element # None /\ focus_read # None
         /\ self.initial_focus_element # focus_read

---------------------------------------------------------------------------
(* ElementStabilityChecker *)

\* control: FALSE for a missing (None) control; rect_read: what control.rectangle()
\* gives at construction
ElementStabilityChecker(control, rect_read) ==
    [control |-> control,
     original_rect |-> IF control /\ ~rect_read.exc THEN rect_read.rect ELSE <<>>]

\* the right and bottom edges not compared
IsElementStableLeftTop(self, rect_read) ==
    IF ~self.control \/ self.original_rect = <<>>
    THEN FALSE
    ELSE IF rect_read.exc
    THEN FALSE
    ELSE /\ rect_read.rect[1] = self.original_rect[1]
         /\ rect_read.rect[2] = self.original_rect[2]

\* rect_read: what control.rectangle() gives now
is_element_stable(self, rect_read) ==
    IF ~self.control \/ self.original_rect = <<>>
    THEN FALSE
    ELSE IF rect_read.exc
    THEN FALSE
    ELSE /\ rect_read.rect[1] = self.original_rect[1]
         /\ rect_read.rect[2] = self.original_rect[2]
         /\ rect_read.rect[3] = self.original_rect[3]
         /\ rect_read.rect[4] = self.original_rect[4]

---------------------------------------------------------------------------
(* SmartClickController: helpers *)

\* int(): truncation toward zero of the rational n/d, d > 0
IntTrunc(n, d) == IF n >= 0 THEN n \div d ELSE -((-n) \div d)

\* _extract_coordinates_from_params falling back to the origin instead of None
ExtractOrOrigin(params, window_read) == <<0, 0>>

_extract_coordinates_from_params(params, window_read) ==
    IF params.x.kind # "absent" /\ params.y.kind # "absent"
    THEN IF params.x.kind = "bad" \/ params.y.kind = "bad" \/ window_read.exc
         THEN <<>>
         ELSE LET app_rect == window_read.rect
              IN  << IntTrunc(app_rect[1] * params.x.den + params.x.num * width(app_rect),
                              params.x.den),
                     IntTrunc(app_rect[2] * params.y.den + params.y.num * height(app_rect),
                              params.y.den) >>
    ELSE <<>>

_update_params_with_coordinates(original_params, abs_x, abs_y, window_read) ==
    IF window_read.exc
    THEN original_params
    ELSE LET app_rect == window_read.rect
         IN  IF width(app_rect) = 0 \/ height(app_rect) = 0
             THEN original_params
             ELSE [x |-> Frac(abs_x - app_rect[1], width(app_rect)),
                   y |-> Frac(abs_y - app_rect[2], height(app_rect))]

\* polls: what the host shows at each poll made before the timeout
_check_click_success(detector, polls) ==
    \E i \in 1..Len(polls) : has_focus_changed(detector, NoneWindow, polls[i].focus)

\* _attempt_click without its except clause: the exception leaves the call
AttemptClickUncaught(detector, click, polls, x, y) ==
    IF click.raises
    THEN [propagates |-> TRUE, success |-> FALSE, message |-> PlainMessage(click.text),
          attempt |-> ClickAttempt(x, y, FALSE, click.text)]
    ELSE IF _check_click_success(detector, polls)
    THEN [propagates |-> FALSE, success |-> TRUE, message |-> PlainMessage(click.text),
          attempt |-> ClickAttempt(x, y, TRUE, "Success")]
    ELSE [propagates |-> FALSE, success |-> FALSE,
          message |-> PlainMessage("No focus change detected"),
          attempt |-> ClickAttempt(x, y, FALSE, "No focus change detected")]

\* click: what the primitive does; the outcome of one attempt
_attempt_click(detector, click, polls, x, y) ==
    IF click.raises
    THEN [propagates |-> FALSE, success |-> FALSE, message |-> PlainMessage(click.text),
          attempt |-> ClickAttempt(x, y, FALSE, click.text)]
    ELSE IF _check_click_success(detector, polls)
    THEN [propagates |-> FALSE, success |-> TRUE, message |-> PlainMessage(click.text),
          attempt |-> ClickAttempt(x, y, TRUE, "Success")]
    ELSE [propagates |-> FALSE, success |-> FALSE,
          message |-> PlainMessage("No focus change detected"),
          attempt |-> ClickAttempt(x, y, FALSE, "No focus change detected")]

_should_continue_retry(checker, rect_read) ==
    IF checker # <<>> THEN is_element_stable(checker[1], rect_read) ELSE TRUE

\* the limit test written with > instead of >=
RetryLimitExceeded(attempts, cfg) == Len(attempts) > cfg.max_retries

RetryLimitReached(attempts, cfg) == Len(attempts) >= cfg.max_retries

\* the offset subtracted instead of added
ProbePointMirrored(cfg, c, t, d) ==
    << c[1] - cfg.retry_directions[d][1] * cfg.retry_offsets[t],
       c[2] - cfg.retry_directions[d][2] * cfg.retry_offsets[t] >>

\* the vertical component of the direction not scaled by the tier distance
ProbePointUnscaledY(cfg, c, t, d) ==
    << c[1] + cfg.retry_directions[d][1] * cfg.retry_offsets[t],
       c[2] + cfg.retry_directions[d][2] >>

ProbePoint(cfg, c, t, d) ==
    << c[1] + cfg.retry_directions[d][1] * cfg.retry_offsets[t],
       c[2] + cfg.retry_directions[d][2] * cfg.retry_offsets[t] >>

\* the outer loop running the same tier again
SameTier(cfg, attempts, t) ==
    IF RetryLimitReached(attempts, cfg) THEN Len(cfg.retry_offsets) + 1 ELSE t

\* The tier the outer loop goes to when an inner loop is over (lines 268-269 and the for)
NextTier(cfg, attempts, t) ==
    IF RetryLimitReached(attempts, cfg) THEN Len(cfg.retry_offsets) + 1 ELSE t + 1

\* History: the host showed a focus change, relative to the baseline, at some poll
FocusReallyChanged(detector, polls) ==
    \E i \in 1..Len(polls) :
        \/ polls[i].handle # detector.initial_window_handle
        \/ (detector.initial_focus_element = None) # (polls[i].focus = None)
        \/ /\ detector.initial_focus_element # None
           /\ polls[i].focus # None
           /\ detector.initial_focus_element # polls[i].focus

NoClick == [params |-> Params(Absent, Absent), raised |-> FALSE,
            text |-> "", focus_changed |-> FALSE]
ClickRecord(params, click, detector, polls) ==
    [params |-> params, raised |-> click.raises, text |-> click.text,
     focus_changed |-> (~click.raises) /\ FocusReallyChanged(detector, polls)]

---------------------------------------------------------------------------
(* State machine *)

NoArgs == <<>>

FnIdle ==
    /\ fn = "none"
    /\ fn_args = NoArgs
    /\ fn_out = FALSE

\* inspector.py as loaded: no facade registered (line 595), the marker down (line 94),
\* an element info with nothing cached (line 93)
NoInstances == [b \in {} |-> <<>>]
ElementInfo(origin, cached_rect, cached_name) ==
    [origin |-> origin, _cached_rect |-> cached_rect, _cached_name |-> cached_name]
TimedCall(ms, raised) == [ms |-> ms, raised |-> raised]
NoTimedCall == TimedCall(0, FALSE)
Pause(requested, slept, toggle) == [requested |-> requested, slept |-> slept, toggle |-> toggle]
RectangleRead(value, live, toggle) == [value |-> value, live |-> live, toggle |-> toggle]

\* A thread that asks for a facade: where it stands in __new__, the identifier it
\* asked for, the instance it built and the instance it was handed
Threads == {"thread 1", "thread 2", "thread 3"}
Thread(at, backend, instance, handed) ==
    [at |-> at, backend |-> backend, instance |-> instance, returned |-> handed]
IdleThread == Thread("idle", None, 0, 0)

InspIdle ==
    /\ _instances = NoInstances
    /\ strategies_built = 0
    /\ constructed = NoArgs
    /\ _time_delay_marker = FALSE
    /\ last_timed = NoTimedCall
    /\ paused = Pause(0, 0, FALSE)
    /\ element_info = ElementInfo("constructor", <<>>, None)
    /\ live_rect = ControlRect
    /\ provider_queries = 0
    /\ rectangle_read = RectangleRead(RectExc, ControlRect, FALSE)
    /\ threads = [t \in Threads |-> IdleThread]

UiaIdle ==
    /\ MAX_RETRIES = MAX_RETRY_ATTEMPTS
    /\ uia_pc = "idle"
    /\ uia_args = NoArgs
    /\ retry_count = 0
    /\ uia_events = <<>>
    /\ uia_result = <<>>

\* History: the focus baseline after capture_initial_state read handle_read
BaselineOrigin(previous, handle_read) ==
    IF handle_read # EXC
    THEN "this request"
    ELSE IF previous = "never" THEN "never" ELSE "earlier request"

ClickInit ==
    /\ config \in Configs
    /\ click_attempts = <<>>
    /\ focus_detector = FocusChangeDetector
    /\ element_checker = <<>>
    /\ request = CallArguments(Params(Absent, Absent), FALSE, <<>>)
    /\ pc = "idle"
    /\ result = NoMessage
    /\ returned = NoMessage
    /\ center = <<>>
    /\ window_seen = "unread"
    /\ tier = 0
    /\ dir = 0
    /\ consecutive_failures = 0
    /\ clicks = 0
    /\ last_click = NoClick
    /\ unstable_reported = FALSE
    /\ baseline_origin = "never"

\* smart_click_with_retry, lines 164-167
\* the log of the previous request left in place
ClearSkipped(attempts) == attempts

\* self.click_attempts.clear(), line 165
clear(attempts) == <<>>

Call(arguments, handle_read, focus_read, rect_read) ==
    /\ pc \in {"idle", "done"}
    /\ click_attempts' = clear(click_attempts)
    /\ focus_detector' = capture_initial_state(focus_detector, handle_read, focus_read)
    /\ element_checker' = IF arguments.control
                           THEN <<ElementStabilityChecker(arguments.control, rect_read)>>
                           ELSE <<>>
    /\ request' = arguments
    /\ pc' = "original"
    /\ result' = NoMessage
    /\ returned' = NoMessage
    /\ center' = <<>>
    /\ window_seen' = "unread"
    /\ tier' = 0
    /\ dir' = 0
    /\ consecutive_failures' = 0
    /\ clicks' = 0
    /\ last_click' = NoClick
    /\ unstable_reported' = FALSE
    /\ baseline_origin' = BaselineOrigin(baseline_origin, handle_read)
    /\ UNCHANGED <<config, fnVars, uiaVars, inspVars>>

\* smart_click_with_retry, lines 171-175
OriginalAttempt(click, polls) ==
    /\ pc = "original"
    /\ LET r == _attempt_click(focus_detector, click, polls, 0, 0)
       IN  /\ click_attempts' = Append(click_attempts, r.attempt)
           /\ result' = r.message
           /\ pc' = IF r.propagates THEN "raised" ELSE IF r.success THEN "done" ELSE "resolve"
           /\ returned' = IF ~r.propagates /\ r.success THEN r.message ELSE returned
    /\ clicks' = clicks + 1
    /\ last_click' = ClickRecord(request.params, click, focus_detector, polls)
    /\ UNCHANGED <<config, focus_detector, element_checker, request, center, window_seen,
                   tier, dir, consecutive_failures, unstable_reported, baseline_origin,
                   fnVars, uiaVars, inspVars>>

\* smart_click_with_retry, lines 177-188, and _perform_grid_retry, lines 219-220
ResolveCoordinates(window_read) ==
    /\ pc = "resolve"
    /\ LET extract == request.target_coordinates = <<>>
           target == IF extract
                     THEN _extract_coordinates_from_params(request.params, window_read)
                     ELSE request.target_coordinates
       IN  /\ center' = target
           /\ window_seen' = IF extract /\ request.params.x.kind = "num"
                                /\ request.params.y.kind = "num"
                             THEN IF window_read.exc THEN "exc" ELSE "ok"
                             ELSE "unread"
           /\ pc' = IF target = <<>> THEN "done" ELSE "grid"
           /\ returned' = IF target = <<>> THEN result ELSE returned
           /\ tier' = IF target = <<>> THEN tier ELSE 1
           /\ dir' = IF target = <<>> THEN dir ELSE 1
    /\ consecutive_failures' = 0
    /\ UNCHANGED <<config, click_attempts, focus_detector, element_checker, request,
                   result, clicks, last_click, unstable_reported, baseline_origin,
                   fnVars, uiaVars, inspVars>>

\* _perform_grid_retry: one iteration of the inner loop, lines 229-266
GridProbe(click, polls, window_read, rect_read) ==
    /\ pc = "grid"
    /\ tier <= Len(config.retry_offsets)
    /\ dir <= Len(config.retry_directions)
    /\ ~RetryLimitReached(click_attempts, config)
    /\ LET p == ProbePoint(config, center, tier, dir)
           retry_params == _update_params_with_coordinates(request.params, p[1], p[2],
                                                           window_read)
           r == _attempt_click(focus_detector, click, polls, p[1], p[2])
           failures == consecutive_failures + 1
           consult == failures >= config.element_stability_check_count
           stable == _should_continue_retry(element_checker, rect_read)
       IN  /\ click_attempts' = Append(click_attempts, r.attempt)
           /\ result' = r.message
           /\ clicks' = clicks + 1
           /\ last_click' = ClickRecord(retry_params, click, focus_detector, polls)
           /\ IF r.propagates
              THEN /\ pc' = "raised"
                   /\ UNCHANGED <<returned, dir, consecutive_failures, unstable_reported>>
              ELSE IF r.success
              THEN /\ pc' = "done"
                   /\ returned' = r.message
                   /\ UNCHANGED <<dir, consecutive_failures, unstable_reported>>
              ELSE /\ pc' = "grid"
                   /\ returned' = returned
                   /\ IF consult /\ ~stable
                      THEN /\ dir' = Len(config.retry_directions) + 1
                           /\ consecutive_failures' = failures
                           /\ unstable_reported' = TRUE
                      ELSE /\ dir' = dir + 1
                           /\ consecutive_failures' = IF consult THEN 0 ELSE failures
                           /\ unstable_reported' = unstable_reported
    /\ UNCHANGED <<config, focus_detector, element_checker, request, center, window_seen,
                   tier, baseline_origin, fnVars, uiaVars, inspVars>>

\* _perform_grid_retry: an inner loop is over (directions done, break at 231 or at 262);
\* line 268 and the outer for
TierEnd ==
    /\ pc = "grid"
    /\ tier <= Len(config.retry_offsets)
    /\ ~(dir <= Len(config.retry_directions) /\ ~RetryLimitReached(click_attempts, config))
    /\ tier' = NextTier(config, click_attempts, tier)
    /\ dir' = 1
    /\ UNCHANGED <<config, click_attempts, focus_detector, element_checker, request, pc,
                   result, returned, center, window_seen, consecutive_failures, clicks,
                   last_click, unstable_reported, baseline_origin, fnVars, uiaVars, inspVars>>

\* _perform_grid_retry, lines 271-273
ReturnExhausted ==
    /\ pc = "grid"
    /\ tier > Len(config.retry_offsets)
    /\ returned' = ExhaustedMessage(Len(click_attempts))
    /\ pc' = "done"
    /\ UNCHANGED <<config, click_attempts, focus_detector, element_checker, request,
                   result, center, window_seen, tier, dir, consecutive_failures, clicks,
                   last_click, unstable_reported, baseline_origin, fnVars, uiaVars, inspVars>>

HandleReads == {"h1", EXC}
FocusReads == {"e1", EXC}
ControlRectReads == {RectOk(ControlRect), RectOk(MovedRect), RectExc}
WindowRectReads == {RectOk(WindowRect), RectExc}
\* ... as attempt number k of a request reads it
WindowRectReadsAt(k) ==
    IF k <= MaxWindowFailAt
    THEN WindowRectReads \cup {RectOk(ZeroWidthWindowRect)}
    ELSE {RectOk(WindowRect)}

CallStep ==
    \E arguments \in ArgumentSet, handle_read \in HandleReads, focus_read \in FocusReads,
       rect_read \in {RectOk(ControlRect), RectExc} :
        /\ arguments.control \/ ~rect_read.exc
        /\ Call(arguments, handle_read, focus_read, rect_read)

\* The reads a step makes: none when the code does not get to the read
PollsAfter(click) == IF click.raises THEN {<<>>} ELSE PollSeqs
ConsultReads ==
    IF /\ consecutive_failures + 1 >= config.element_stability_check_count
       /\ element_checker # <<>>
    THEN IF element_checker[1].original_rect # <<>>
         THEN ControlRectReads
         ELSE {RectExc}
    ELSE {RectOk(ControlRect)}

OriginalStep ==
    \E click \in ClickOutcomes(1) :
        \E polls \in PollsAfter(click) : OriginalAttempt(click, polls)

ResolveStep == \E window_read \in WindowRectReads : ResolveCoordinates(window_read)

ProbeStep ==
    \E click \in ClickOutcomes(Len(click_attempts) + 1) :
        \E polls \in PollsAfter(click),
           window_read \in WindowRectReadsAt(Len(click_attempts) + 1),
           rect_read \in ConsultReads :
            GridProbe(click, polls, window_read, rect_read)

Running == OriginalStep \/ ResolveStep \/ ProbeStep \/ TierEnd \/ ReturnExhausted

Next == CallStep \/ Running

\* The controller alone: the query functions and the backend are not exercised
Init == ClickInit /\ FnIdle /\ UiaIdle /\ InspIdle

Spec == Init /\ [][Next]_vars

\* The call is synchronous, single-threaded code: a started call keeps executing.
FairSpec == Spec /\ WF_vars(Running)

---------------------------------------------------------------------------
(* Claims about smart_click_with_retry *)

LastAttempt == click_attempts[Len(click_attempts)]
Probes == IF Len(click_attempts) = 0 THEN 0 ELSE Len(click_attempts) - 1
ExhaustedReturn == pc = "done" /\ returned = ExhaustedMessage(Len(click_attempts))
InCall == pc \in {"original", "resolve", "grid"}

\* C1: an attempt during which the window handle or the focused element differed
\* from the baseline at some poll is recorded as successful, and the call returns
\* the click primitive's result.
C1_FocusChangeMarksSuccess ==
    (clicks >= 1 /\ last_click.focus_changed) =>
        /\ LastAttempt.success
        /\ pc = "done"
        /\ returned = PlainMessage(last_click.text)

\* C2: once a stability consultation has answered unstable, the request makes no
\* further click attempt.
C2_NoClickAfterUnstable == [][unstable_reported => clicks' <= clicks]_vars

\* C3: default configuration, resolvable coordinates, stable target, every attempt
\* failed: when the search reports exhaustion every (tier, direction) pair has been
\* probed exactly once, 24 probes in all.
C3_AllProbesClicked ==
    (config = SmartClickConfig /\ ExhaustedReturn /\ ~unstable_reported) =>
        /\ Probes = 24
        /\ \A t \in 1..3, d \in 1..8 :
              Cardinality({k \in 2..Len(click_attempts) :
                  <<click_attempts[k].x, click_attempts[k].y>>
                      = ProbePoint(config, center, t, d)}) = 1

\* C4: default configuration, stable target, every attempt failed: the failure
\* message returned reports exactly 24 attempts.
C4_ExhaustedReports24 ==
    (config = SmartClickConfig /\ ExhaustedReturn /\ ~unstable_reported) =>
        returned.attempts = 24

C4_Witness ==
    /\ config = SmartClickConfig
    /\ ExhaustedReturn
    /\ ~unstable_reported
    /\ request.control
    /\ \A k \in 1..Len(click_attempts) : ~click_attempts[k].success

\* C5: when focus changes within the timeout of the original attempt, grid search
\* is never entered: the click primitive has been invoked once, the log holds one
\* entry and the call is not in _perform_grid_retry.
C5_OriginalSuccessEndsCall ==
    (Len(click_attempts) = 1 /\ last_click.focus_changed) =>
        /\ clicks = 1
        /\ pc # "grid"

\* C6: the call never raises: whatever the click primitive and the host do, the
\* call is never left by an exception, what it returns is a message, and an
\* exception of the click primitive is recorded as a failed attempt whose reason
\* is the exception text.
C6_NeverRaises ==
    /\ pc # "raised"
    /\ (pc = "done" => returned # NoMessage)
    /\ (clicks >= 1 /\ last_click.raised) =>
          /\ ~LastAttempt.success
          /\ LastAttempt.error_message = last_click.text
          /\ Len(click_attempts) = clicks

C6_Witness ==
    /\ pc = "done"
    /\ Len(click_attempts) >= 2
    /\ click_attempts[1].error_message = ClickRaises.text
    /\ element_checker # <<>>
    /\ element_checker[1].original_rect = <<>>
    /\ focus_detector.initial_window_handle = None

\* C7: the original click failed, no explicit target was given and the parameters
\* do not hold a convertible x and y: the call returns the original attempt's
\* failure message after exactly one invocation of the click primitive, and no
\* grid probe is made.
ParamsConvertible ==
    /\ request.params.x.kind = "num"
    /\ request.params.y.kind = "num"
    /\ window_seen = "ok"

C7_NoCoordinatesNoGrid ==
    /\ (pc = "grid" \/ center # <<>>) =>
          (request.target_coordinates # <<>> \/ ParamsConvertible)
    /\ (pc = "done" /\ center = <<>> /\ ~click_attempts[1].success) =>
          /\ clicks = 1
          /\ Len(click_attempts) = 1
          /\ returned = PlainMessage(click_attempts[1].error_message)

C7_Witness ==
    /\ pc = "done"
    /\ request.target_coordinates = <<>>
    /\ request.params.x.kind = "num"
    /\ request.params.y.kind = "num"
    /\ window_seen = "exc"
    /\ clicks = 1

\* C8: grid search stops at the first probe during which focus changed: no further
\* click is issued in the request (so the attempts total 2 when that probe is the
\* first one, and no probe of a larger tier follows).
C8_GridStopsAtFirstSuccess ==
    [][(Len(click_attempts) >= 2 /\ last_click.focus_changed) => clicks' <= clicks]_vars

\* C9: default configuration: the probes are issued in the order of tiers 5, 10,
\* 15 and, within a tier, up, up-right, right, down-right, down, down-left, left,
\* up-left; the first probe is (tier 5, up), which for the center (400, 300) is
\* (400, 295); no probe of a larger tier precedes one of a smaller tier.
CanonicalProbe(c, i) ==
    LET distance == <<5, 10, 15>>[((i - 1) \div 8) + 1]
        direction == << <<0, -1>>, <<1, -1>>, <<1, 0>>, <<1, 1>>,
                        <<0, 1>>, <<-1, 1>>, <<-1, 0>>, <<-1, -1>> >>[((i - 1) % 8) + 1]
    IN  <<c[1] + direction[1] * distance, c[2] + direction[2] * distance>>

ProbeRank(k) ==
    {i \in 1..24 : CanonicalProbe(center, i) = <<click_attempts[k].x, click_attempts[k].y>>}

C9_ProbeOrder ==
    (config = SmartClickConfig /\ Len(click_attempts) >= 2) =>
        /\ ProbeRank(2) = {1}
        /\ (center = <<400, 300>> =>
               <<click_attempts[2].x, click_attempts[2].y>> = <<400, 295>>)
        /\ \A k \in 2..Len(click_attempts) : Cardinality(ProbeRank(k)) = 1
        /\ \A k \in 2..(Len(click_attempts) - 1) :
              \A i \in ProbeRank(k), j \in ProbeRank(k + 1) : i < j

C9_Witness ==
    /\ config = SmartClickConfig
    /\ center = <<400, 300>>
    /\ ExhaustedReturn
    /\ unstable_reported
    /\ Len(click_attempts) >= 6

\* C10: for every configuration and every outcome sequence the call terminates,
\* the grid probes number at most tiers x directions and the invocations of the
\* click primitive at most 1 + tiers x directions.
GridSize == Len(config.retry_offsets) * Len(config.retry_directions)

C10_Bounded ==
    /\ [](Probes <= GridSize /\ clicks <= 1 + GridSize)
    /\ (InCall ~> pc = "done")

C10_Witness ==
    /\ config # SmartClickConfig
    /\ config.max_retries > 1 + GridSize
    /\ ExhaustedReturn
    /\ Probes = GridSize
    /\ clicks = 1 + GridSize

\* C11 as stated: the straight-line distance of every grid probe from the center
\* equals one of the configured tier distances, diagonals included.
TierDistances == {config.retry_offsets[t] : t \in 1..Len(config.retry_offsets)}
ProbeOffset(k) == <<click_attempts[k].x - center[1], click_attempts[k].y - center[2]>>
Abs(n) == IF n < 0 THEN -n ELSE n
IsDiagonal(o) == o[1] # 0 /\ o[2] # 0

C11_StraightLineDistance ==
    \A k \in 2..Len(click_attempts) :
        \E d \in TierDistances :
            ProbeOffset(k)[1] * ProbeOffset(k)[1] + ProbeOffset(k)[2] * ProbeOffset(k)[2] = d * d

\* C11: every grid probe is the center plus a configured direction vector times a
\* configured tier distance d: each coordinate offset is -d, 0 or d and the larger
\* of the two offsets is exactly d; the straight-line distance is d only for the
\* four axis directions.
C11_ProbeOnTierSquare ==
    \A k \in 2..Len(click_attempts) :
        \E d \in TierDistances :
            /\ \E i \in 1..Len(config.retry_directions) :
                  ProbeOffset(k) = << config.retry_directions[i][1] * d,
                                     config.retry_directions[i][2] * d >>
            /\ {Abs(ProbeOffset(k)[1]), Abs(ProbeOffset(k)[2])} \subseteq {0, d}
            /\ d \in {Abs(ProbeOffset(k)[1]), Abs(ProbeOffset(k)[2])}
            /\ (~IsDiagonal(ProbeOffset(k)) =>
                  ProbeOffset(k)[1] * ProbeOffset(k)[1]
                      + ProbeOffset(k)[2] * ProbeOffset(k)[2] = d * d)

C11_Witness ==
    /\ config = SmartClickConfig
    /\ Len(click_attempts) >= 14
    /\ ProbeOffset(13) = <<10, 10>>
    /\ ProbeOffset(14) = <<0, 10>>

\* C12: a request of the default configuration during which a stability
\* consultation answered False ends with fewer than max_retries (24) entries in
\* the attempt log.
C12_UnstableEndsEarly ==
    (config = SmartClickConfig /\ pc = "done" /\ unstable_reported) =>
        Len(click_attempts) < config.max_retries

\* C13: while a request runs, the focus baseline held by the detector was never
\* captured during an earlier request (the stability baseline is rebuilt by every
\* request, line 167).
C13_BaselinesOfThisRequest ==
    InCall => baseline_origin # "earlier request"

\* C14: at every moment the attempt log has exactly one entry per invocation of
\* the click primitive made by the most recent request, the last entry being the
\* one of the last invocation; a successful entry is the last one; a request
\* starts from the empty log and its steps only append.
LogMatchesClicks ==
    /\ Len(click_attempts) = clicks
    /\ \A k \in 1..Len(click_attempts) : click_attempts[k].success => k = Len(click_attempts)
    /\ clicks > 0 =>
          /\ last_click.raised => LastAttempt = ClickAttempt(LastAttempt.x, LastAttempt.y,
                                                            FALSE, last_click.text)
          /\ ~last_click.raised => LastAttempt.error_message
                                      \in {"Success", "No focus change detected"}

C14_LogOfThisRequest ==
    /\ []LogMatchesClicks
    /\ [][IF pc' = "original"
          THEN click_attempts' = <<>>
          ELSE /\ Len(click_attempts') \in {Len(click_attempts), Len(click_attempts) + 1}
               /\ SubSeq(click_attempts', 1, Len(click_attempts)) = click_attempts]_vars

C14_Witness ==
    /\ baseline_origin = "earlier request"
    /\ pc = "done"
    /\ clicks = 3
    /\ Len(click_attempts) = 3
    /\ click_attempts[1].error_message = "click error"
    /\ LastAttempt.error_message = "No focus change detected"

---------------------------------------------------------------------------
(* The two query objects on their own: has_focus_changed and is_element_stable *)
(* applied once to every baseline and every current reading of a small host.   *)

MaxEdgeShift == 1     \* an edge of a rectangle lies 0..MaxEdgeShift pixels off ControlRect

BaselineHandles == {None, "h1", "h2"}
BaselineFocus == {None, "e1", "e2"}
Detectors ==
    {[initial_window_handle |-> h, initial_focus_element |-> e] :
        h \in BaselineHandles, e \in BaselineFocus}
Windows == {NoneWindow, Window("h1"), Window("h2"), Window(EXC)}
CurrentFocusReads == {None, "e1", "e2", EXC}

EdgeShifts == 0..MaxEdgeShift
RectangleReads ==
    {RectOk(Rect(ControlRect[1] + a, ControlRect[2] + b, ControlRect[3] + c,
                 ControlRect[4] + d)) : a \in EdgeShifts, b \in EdgeShifts,
                                        c \in EdgeShifts, d \in EdgeShifts}
        \cup {RectExc}

ClickIdle == ClickInit /\ config = SmartClickConfig

\* FocusChangeDetector.has_focus_changed, lines 71-100
ApplyHasFocusChanged(detector, application_window, focus_read) ==
    /\ fn = "none"
    /\ fn' = "has_focus_changed"
    /\ fn_args' = [detector |-> detector, application_window |-> application_window,
                   focus_read |-> focus_read]
    /\ fn_out' = has_focus_changed(detector, application_window, focus_read)
    /\ UNCHANGED <<clickVars, uiaVars, inspVars>>

\* ElementStabilityChecker.__init__ and is_element_stable, lines 106-134
ApplyIsElementStable(control, construct_read, rect_read) ==
    /\ fn = "none"
    /\ fn' = "is_element_stable"
    /\ fn_args' = [control |-> control, construct_read |-> construct_read,
                   checker |-> ElementStabilityChecker(control, construct_read),
                   rect_read |-> rect_read]
    /\ fn_out' = is_element_stable(ElementStabilityChecker(control, construct_read), rect_read)
    /\ UNCHANGED <<clickVars, uiaVars, inspVars>>

FocusQuery ==
    \E detector \in Detectors, application_window \in Windows,
       focus_read \in CurrentFocusReads :
        ApplyHasFocusChanged(detector, application_window, focus_read)

StabilityQuery ==
    \E control \in BOOLEAN, construct_read \in RectangleReads, rect_read \in RectangleReads :
        /\ control \/ (construct_read = RectExc /\ rect_read = RectExc)
        /\ ApplyIsElementStable(control, construct_read, rect_read)

FnInit == ClickIdle /\ FnIdle /\ UiaIdle /\ InspIdle
FnNext == FocusQuery \/ StabilityQuery
FnSpec == FnInit /\ [][FnNext]_vars

\* C15: has_focus_changed answers true exactly when the window handle differs
\* from the baseline, or exactly one of baseline focus and current focus is
\* absent, or both are present and unequal; a current snapshot equal to the
\* baseline gives false and any difference of handle gives true.
C15_FocusChangedIff ==
    (fn = "has_focus_changed" /\ ~fn_args.application_window.is_none
        /\ fn_args.application_window.handle # EXC) =>
        LET base == fn_args.detector
            handle == fn_args.application_window.handle
            focus == fn_args.focus_read
        IN  /\ handle # base.initial_window_handle => fn_out
            /\ focus # EXC =>
                  (fn_out <=>
                      \/ handle # base.initial_window_handle
                      \/ (base.initial_focus_element = None) # (focus = None)
                      \/ /\ base.initial_focus_element # None
                         /\ focus # None
                         /\ base.initial_focus_element # focus)
            /\ (handle = base.initial_window_handle /\ focus = base.initial_focus_element)
                  => ~fn_out

C15_Witness ==
    /\ fn = "has_focus_changed"
    /\ fn_args.detector = [initial_window_handle |-> "h1", initial_focus_element |-> None]
    /\ fn_args.application_window = Window("h1")
    /\ fn_args.focus_read = "e1"
    /\ fn_out

\* C16: is_element_stable answers true exactly when the control exists, its
\* rectangle was read at construction, it is read again now, and all four edges
\* equal the baseline; every other case answers false, and the answer is always
\* a Boolean (no exception leaves the function).
C16_StableIff ==
    fn = "is_element_stable" =>
        /\ fn_out \in BOOLEAN
        /\ fn_out <=>
              /\ fn_args.control
              /\ ~fn_args.construct_read.exc
              /\ ~fn_args.rect_read.exc
              /\ \A i \in 1..4 : fn_args.rect_read.rect[i] = fn_args.construct_read.rect[i]
        /\ (fn_args.control /\ fn_args.construct_read = RectOk(ControlRect)) =>
              /\ fn_args.rect_read = RectOk(ControlRect) => fn_out
              /\ fn_args.rect_read = RectOk(MovedRect) => ~fn_out

C16_Witness ==
    /\ fn = "is_element_stable"
    /\ fn_args.control
    /\ fn_args.construct_read = RectOk(ControlRect)
    /\ fn_args.rect_read = RectOk(Rect(10, 10, 110, 61))
    /\ ~fn_out

---------------------------------------------------------------------------
(* UIABackendStrategy.find_control_elements_in_descendants (inspector.py):   *)
(* one bulk query per loop iteration, with the handling of its failures.     *)

MaxRetriesUia == 4    \* configured UI_MAX_RETRY_ATTEMPTS: 0..MaxRetriesUia, and the default
MaxClassNames == 1    \* entries of class_name_list

RetryChoices == (0..MaxRetriesUia) \cup {MAX_RETRY_ATTEMPTS}

\* The window argument: None, or a window
UiaWindows == {None, "window"}
ClassNameLists == {[i \in 1..n |-> "Button"] : n \in 0..MaxClassNames}
UiaArguments == {[window |-> w, class_name_list |-> l] : w \in UiaWindows, l \in ClassNameLists}

\* What is_enabled() and element_info.rectangle do when the window is validated
WindowReads == {"valid", "is_enabled raises", "rectangle raises"}
\* What _find_controls_with_cache does: a list of controls, or an exception with or
\* without an hresult attribute
QueryOutcomes == {"found", "empty", "com_error", "error"}
QueryResult(outcome) == IF outcome = "found" THEN <<"control">> ELSE <<>>

Event(kind, n, detail) == [kind |-> kind, n |-> n, detail |-> detail]

\* the validation answering True whatever the reads do
WindowAlwaysValid(read) == TRUE

\* _is_window_valid, lines 183-196
_is_window_valid(read) == read = "valid"

\* _handle_com_error, lines 198-224: None (retry) or the error message
_handle_com_error(attempt, max_retries) ==
    IF attempt < max_retries THEN None ELSE "error_msg"

\* the loop running one iteration more
InRangeInclusive(i, stop) == i <= stop

\* for retry_count in range(self.MAX_RETRIES), line 278
InRange(i, stop) == i < stop

UiaInit ==
    /\ ClickIdle
    /\ FnIdle
    /\ InspIdle
    /\ MAX_RETRIES \in RetryChoices
    /\ uia_pc = "idle"
    /\ uia_args = NoArgs
    /\ retry_count = 0
    /\ uia_events = <<>>
    /\ uia_result = <<>>

\* lines 266-276: the early returns, the assert, and the entry into the loop
UiaCall(arguments, read) ==
    /\ uia_pc \in {"idle", "returned", "raised"}
    /\ uia_args' = arguments
    /\ retry_count' = 0
    /\ uia_result' = <<>>
    /\ IF arguments.window = None
       THEN /\ uia_pc' = "returned"
            /\ uia_events' = <<>>
       ELSE IF ~_is_window_valid(read)
       THEN /\ uia_pc' = "returned"
            /\ uia_events' = <<Event("validate", 0, read)>>
       ELSE IF Len(arguments.class_name_list) # 0
       THEN /\ uia_pc' = "raised"
            /\ uia_events' = <<Event("validate", 0, read)>>
       ELSE /\ uia_pc' = "loop"
            /\ uia_events' = <<Event("validate", 0, read)>>
    /\ UNCHANGED <<clickVars, fnVars, inspVars, MAX_RETRIES>>

\* lines 278-307: one iteration of the loop
UiaAttempt(outcome, read) ==
    /\ uia_pc = "loop"
    /\ InRange(retry_count, MAX_RETRIES)
    /\ LET query == Event("query", retry_count + 1, outcome)
       IN  IF outcome \in {"found", "empty"}
           THEN /\ uia_pc' = "returned"
                /\ uia_result' = QueryResult(outcome)
                /\ uia_events' = Append(uia_events, query)
                /\ UNCHANGED retry_count
           ELSE IF outcome = "com_error"
           THEN IF _handle_com_error(retry_count, MAX_RETRIES) = None
                THEN /\ uia_events' = uia_events \o
                         << query, Event("backoff", retry_count + 1, ""),
                            Event("validate", retry_count + 1, read) >>
                     /\ IF ~_is_window_valid(read)
                        THEN /\ uia_pc' = "returned"
                             /\ UNCHANGED retry_count
                        ELSE /\ uia_pc' = "loop"
                             /\ retry_count' = retry_count + 1
                     /\ UNCHANGED uia_result
                ELSE /\ uia_pc' = "returned"
                     /\ uia_events' = Append(uia_events, query)
                     /\ UNCHANGED <<retry_count, uia_result>>
           ELSE IF retry_count < MAX_RETRIES - 1
           THEN /\ uia_pc' = "loop"
                /\ retry_count' = retry_count + 1
                /\ uia_events' = uia_events \o << query, Event("short wait", retry_count + 1, "") >>
                /\ UNCHANGED uia_result
           ELSE /\ uia_pc' = "returned"
                /\ uia_events' = Append(uia_events, query)
                /\ UNCHANGED <<retry_count, uia_result>>
    /\ UNCHANGED <<clickVars, fnVars, inspVars, MAX_RETRIES, uia_args>>

\* line 309: the loop is over
UiaLoopEnd ==
    /\ uia_pc = "loop"
    /\ ~InRange(retry_count, MAX_RETRIES)
    /\ uia_pc' = "returned"
    /\ UNCHANGED <<clickVars, fnVars, inspVars, MAX_RETRIES, uia_args, retry_count, uia_events,
                   uia_result>>

UiaCallStep == \E arguments \in UiaArguments, read \in WindowReads : UiaCall(arguments, read)
UiaAttemptStep == \E outcome \in QueryOutcomes, read \in WindowReads : UiaAttempt(outcome, read)

UiaNext == UiaCallStep \/ UiaAttemptStep \/ UiaLoopEnd
UiaSpec == UiaInit /\ [][UiaNext]_vars

UiaInCall == uia_pc # "idle"
QueryEvents == {i \in 1..Len(uia_events) : uia_events[i].kind = "query"}
FailedQueries == {i \in QueryEvents : uia_events[i].detail \in {"com_error", "error"}}
Revalidations ==
    {i \in 1..Len(uia_events) : uia_events[i].kind = "validate" /\ uia_events[i].n >= 1}

\* C17: a call with an empty class_name_list never ends by raising, whatever the
\* bulk queries do; it makes at most MAX_RETRIES bulk queries, numbered one after
\* the other; and when it has returned with every query failed, the result is
\* the empty list.
C17_BoundedQueriesThenEmpty ==
    UiaInCall =>
        /\ Len(uia_args.class_name_list) = 0 => uia_pc # "raised"
        /\ Cardinality(QueryEvents) <= MAX_RETRIES
        /\ \A i \in QueryEvents :
              uia_events[i].n = Cardinality({j \in QueryEvents : j <= i})
        /\ (uia_pc = "returned" /\ FailedQueries = QueryEvents) => uia_result = <<>>

C17_Witness ==
    /\ MAX_RETRIES = MAX_RETRY_ATTEMPTS
    /\ uia_pc = "returned"
    /\ Cardinality(QueryEvents) = MAX_RETRY_ATTEMPTS
    /\ FailedQueries = QueryEvents
    /\ \E i \in QueryEvents : uia_events[i].detail = "com_error"
    /\ \E i \in QueryEvents : uia_events[i].detail = "error"
    /\ uia_result = <<>>

\* C18: a backoff wait and the re-validation that follows it happen only after an
\* attempt that is not the last permitted one.
C18_BackoffOnlyIfRetryRemains ==
    \A i \in 1..Len(uia_events) :
        (uia_events[i].kind = "backoff" \/ i \in Revalidations) =>
            uia_events[i].n < MAX_RETRIES

\* C19: a re-validation that finds the window invalid is the last thing the call
\* does: the call has returned the empty list and no bulk query follows.
C19_InvalidWindowEndsCall ==
    \A i \in Revalidations :
        uia_events[i].detail # "valid" =>
            /\ i = Len(uia_events)
            /\ uia_pc = "returned"
            /\ uia_result = <<>>

C19_Witness ==
    /\ MAX_RETRIES = MAX_RETRY_ATTEMPTS
    /\ uia_pc = "returned"
    /\ Len(uia_events) = 4
    /\ uia_events[2] = Event("query", 1, "com_error")
    /\ uia_events[4] = Event("validate", 1, "rectangle raises")

\* C20: a call with a non-empty class_name_list ends by raising, whatever the
\* window argument is.
C20_ClassNamesFailFast ==
    (UiaInCall /\ Len(uia_args.class_name_list) # 0) => uia_pc = "raised"

---------------------------------------------------------------------------
(* find_control_elements_in_descendants of the two backends and of the       *)
(* facade (inspector.py), applied once to every small descendant list.       *)

MaxElements == 2      \* descendants of a window, entries of a bulk-query array
MAX_ARRAY_LENGTH == 500
FALLBACK_LIMIT == 100

ZeroRect == Rect(10, 10, 10, 60)
NegativeRect == Rect(10, 10, 110, 5)

Take(seq, n) == SubSeq(seq, 1, IF Len(seq) < n THEN Len(seq) ELSE n)
SeqsUpTo(S, n) == UNION {[1..k -> S] : k \in 0..n}

\* An element as a caller receives it
Control(name, rect, source) == [name |-> name, rect |-> rect, source |-> source]

\* An entry of the array FindAllBuildCache answers: GetElement may answer None,
\* reading the cached properties may raise, building the wrapper may fail
CachedElement(state, name, rect) == [state |-> state, name |-> name, rect |-> rect]
CachedElements ==
    {CachedElement("ok", "OK", ControlRect), CachedElement("ok", "", ControlRect),
     CachedElement("ok", "OK", ZeroRect), CachedElement("ok", "OK", NegativeRect),
     CachedElement("null", "OK", ControlRect), CachedElement("cached raises", "OK", ControlRect),
     CachedElement("wrapper fails", "OK", ControlRect)}

\* _process_cached_elements with _create_uia_wrapper, lines 353-435
_process_cached_elements(com_elem_array) ==
    LET kept == SelectSeq(Take(com_elem_array, MAX_ARRAY_LENGTH),
                          LAMBDA e : /\ e.state = "ok"
                                     /\ ~(width(e.rect) <= 0 \/ height(e.rect) <= 0))
    IN  [n \in 1..Len(kept) |-> Control(kept[n].name, kept[n].rect, "uia")]

\* UIABackendStrategy.find_control_elements_in_descendants as the facade calls it
\* (class_name_list empty): the result of the bulk query, [] when it failed
UiaFind(query) ==
    IF query.raises THEN <<>> ELSE _process_cached_elements(query.array)

\* A descendant as the win32 backend sees it; is_visible() may raise
Win32Element(name, rect, visible, enabled, type) ==
    [name |-> name, rect |-> rect, visible |-> visible, enabled |-> enabled,
     control_type |-> type, class_name |-> type]
Win32Elements ==
    {Win32Element("OK", ControlRect, "yes", TRUE, "Button"),
     Win32Element("", ControlRect, "yes", TRUE, "Button"),
     Win32Element("OK", ZeroRect, "yes", TRUE, "Button"),
     Win32Element("OK", ControlRect, "no", TRUE, "Button"),
     Win32Element("OK", ControlRect, "raises", TRUE, "Button"),
     Win32Element("OK", ControlRect, "yes", FALSE, "Button"),
     Win32Element("OK", ControlRect, "yes", TRUE, "Edit")}

FilterLists == {<<>>, <<"Button">>}
InList(x, list) == \E i \in 1..Len(list) : list[i] = x

FindArguments ==
    {[control_type_list |-> t, class_name_list |-> c, is_visible |-> v, is_enabled |-> e] :
        t \in FilterLists, c \in FilterLists, v \in BOOLEAN, e \in BOOLEAN}

\* Win32BackendStrategy.find_control_elements_in_descendants, lines 528-587
Win32Find(descendants, class_name_list, is_visible, is_enabled, control_type_list) ==
    LET of_class == IF Len(class_name_list) = 0
                    THEN descendants
                    ELSE SelectSeq(descendants, LAMBDA c : InList(c.class_name, class_name_list))
    IN  IF is_visible /\ \E i \in 1..Len(of_class) : of_class[i].visible = "raises"
        THEN [raises |-> TRUE, controls |-> <<>>]
        ELSE [raises |-> FALSE,
              controls |->
                  SelectSeq(of_class,
                      LAMBDA c : /\ is_visible => c.visible = "yes"
                                 /\ is_enabled => c.enabled
                                 /\ Len(control_type_list) > 0
                                       => InList(c.control_type, control_type_list)
                                 /\ c.name # "")]

\* ControlInspectorFacade._fallback_control_search, lines 865-888
_fallback_control_search(descendants_read, control_type_list) ==
    IF descendants_read.raises
    THEN <<>>
    ELSE Take(IF Len(control_type_list) > 0
              THEN SelectSeq(descendants_read.controls,
                             LAMBDA d : InList(d.control_type, control_type_list))
              ELSE descendants_read.controls,
              FALLBACK_LIMIT)

AsControls(elements) ==
    [n \in 1..Len(elements) |-> Control(elements[n].name, elements[n].rect, "")]

\* ControlInspectorFacade.find_control_elements_in_descendants with the win32
\* backend, lines 831-863: the backend is given an empty control_type_list
FacadeFindWin32(window, arguments, fallback_read) ==
    IF window.is_none
    THEN <<>>
    ELSE LET r == Win32Find(window.descendants, arguments.class_name_list,
                            arguments.is_visible, arguments.is_enabled, <<>>)
         IN  IF r.raises
             THEN AsControls(_fallback_control_search(fallback_read,
                                                      arguments.control_type_list))
             ELSE AsControls(r.controls)

\* ... with the uia backend
FacadeFindUia(window, query) ==
    IF window.is_none THEN <<>> ELSE UiaFind(query)

FindWindows(elements) ==
    {[is_none |-> TRUE, descendants |-> <<>>]}
        \cup {[is_none |-> FALSE, descendants |-> d] : d \in SeqsUpTo(elements, MaxElements)}

BulkQueries ==
    {[raises |-> TRUE, array |-> <<>>]}
        \cup {[raises |-> FALSE, array |-> a] : a \in SeqsUpTo(CachedElements, MaxElements)}

\* What window.descendants() gives the fallback search
FallbackReads(window) ==
    {[raises |-> TRUE, controls |-> <<>>], [raises |-> FALSE, controls |-> window.descendants]}

FindUia(window, query) ==
    /\ fn = "none"
    /\ fn' = "find uia"
    /\ fn_args' = [window |-> window, query |-> query]
    /\ fn_out' = [controls |-> FacadeFindUia(window, query), fallback |-> FALSE]
    /\ UNCHANGED <<clickVars, uiaVars, inspVars>>

FindWin32(window, arguments, fallback_read) ==
    /\ fn = "none"
    /\ fn' = "find win32"
    /\ fn_args' = [window |-> window, arguments |-> arguments, fallback_read |-> fallback_read]
    /\ fn_out' = [controls |-> FacadeFindWin32(window, arguments, fallback_read),
                  fallback |-> /\ ~window.is_none
                               /\ Win32Find(window.descendants, arguments.class_name_list,
                                            arguments.is_visible, arguments.is_enabled,
                                            <<>>).raises]
    /\ UNCHANGED <<clickVars, uiaVars, inspVars>>

FindUiaStep ==
    \E window \in FindWindows({}), query \in BulkQueries : FindUia(window, query)

FindWin32Step ==
    \E window \in FindWindows(Win32Elements), arguments \in FindArguments :
        \E fallback_read \in FallbackReads(window) : FindWin32(window, arguments, fallback_read)

FindNext == FindUiaStep \/ FindWin32Step
FindSpec == FnInit /\ [][FindNext]_vars

IsFind == fn \in {"find uia", "find win32"}

\* C21: an element that a backend's own search returns (either backend, every
\* filter argument) has a rectangle of positive width and positive height.
C21_NoEmptyRectangle ==
    (IsFind /\ ~fn_out.fallback) =>
        \A i \in 1..Len(fn_out.controls) :
            width(fn_out.controls[i].rect) > 0 /\ height(fn_out.controls[i].rect) > 0

\* C22: with the win32 backend the facade never returns an element whose name
\* is empty, the fallback search included.
C22_NoEmptyName ==
    fn = "find win32" => \A i \in 1..Len(fn_out.controls) : fn_out.controls[i].name # ""

---------------------------------------------------------------------------
(* ControlInspectorFacade.get_desktop_app_dict: called once on every small    *)
(* list of desktop windows, then once more with the desktop unchanged.       *)

MaxWindows == 3       \* windows on the desktop

Digits == <<"0", "1", "2", "3", "4", "5", "6", "7", "8", "9">>

\* str() of a natural number
RECURSIVE str(_)
str(n) == IF n < 10 THEN Digits[n + 1] ELSE str(n \div 10) \o Digits[(n % 10) + 1]

\* A window of the desktop: what its is_normal() does
DesktopWindow(title, normal) == [title |-> title, normal |-> normal]
DesktopWindowSet ==
    {DesktopWindow(t, n) : t \in {"a", "b"}, n \in {"true", "false", "raises"}}
Desktops == SeqsUpTo(DesktopWindowSet, MaxWindows)

\* the labels counted from 0
LabelFromZero(i) == str(i)

\* str(i + 1), line 672
Label(i) == str(i + 1)

\* get_desktop_app_dict, lines 655-678: the dict as its list of items, in order
get_desktop_app_dict(desktop_windows) ==
    LET desktop_windows_with_gui == SelectSeq(desktop_windows, LAMBDA w : w.normal # "raises")
    IN  [k \in 1..Len(desktop_windows_with_gui) |->
            [label |-> Label(k - 1), window |-> desktop_windows_with_gui[k]]]

DesktopDictCall(desktop_windows) ==
    /\ fn = "none"
    /\ fn' = "get_desktop_app_dict"
    /\ fn_args' = desktop_windows
    /\ fn_out' = get_desktop_app_dict(desktop_windows)
    /\ UNCHANGED <<clickVars, uiaVars, inspVars>>

\* a second call, the desktop being as it was
DesktopDictAgain ==
    /\ fn = "get_desktop_app_dict"
    /\ fn' = "get_desktop_app_dict again"
    /\ fn_out' = get_desktop_app_dict(fn_args)
    /\ UNCHANGED <<fn_args, clickVars, uiaVars, inspVars>>

DesktopDictStep == \E desktop_windows \in Desktops : DesktopDictCall(desktop_windows)

DictNext == DesktopDictStep \/ DesktopDictAgain
DictSpec == FnInit /\ [][DictNext]_vars

IsDict == fn \in {"get_desktop_app_dict", "get_desktop_app_dict again"}

\* C24: every window in the result of get_desktop_app_dict answered true to the
\* is-a-normal-window check.
C24_OnlyNormalWindows ==
    IsDict => \A k \in 1..Len(fn_out) : fn_out[k].window.normal = "true"

\* C25: the n windows of the result carry the labels "1".."n" in this order, the
\* windows are in the order of the enumeration, and a second call with the
\* desktop unchanged gives the same items in the same order.
DecimalLabels == <<"1", "2", "3", "4", "5", "6", "7", "8", "9", "10", "11", "12">>
RECURSIVE IsSubsequence(_, _)
IsSubsequence(sub, seq) ==
    IF sub = <<>> THEN TRUE
    ELSE IF seq = <<>> THEN FALSE
    ELSE IF Head(sub) = Head(seq) THEN IsSubsequence(Tail(sub), Tail(seq))
    ELSE IsSubsequence(sub, Tail(seq))

LabelsInOrder ==
    IsDict =>
        /\ \A k \in 1..Len(fn_out) : fn_out[k].label = DecimalLabels[k]
        /\ IsSubsequence([k \in 1..Len(fn_out) |-> fn_out[k].window], fn_args)

---------------------------------------------------------------------------
(* ControlInspectorFacade.get_control_info, applied once to every small       *)
(* control and field list.                                                   *)

MaxRaising == 2       \* properties of one control that raise when read

\* The properties of a control that get_control_info reads; reading one may raise
Properties == {"control_type", "control_id", "class_name", "name", "rectangle",
               "window_text", "source"}
\* What the accessible state of the control shows to get_check_state
CheckStates == {"checked", "selected", "checked and selected", "neither", "raises",
                "raises at the second read", "not a control"}

InfoControls ==
    {[raising |-> r, check |-> c] :
        r \in {x \in SUBSET Properties : Cardinality(x) <= MaxRaising}, c \in CheckStates}

KnownFields == {"control_type", "control_id", "control_class", "control_name",
                "control_rect", "control_text", "control_title", "selected", "source"}
FieldLists == {{}, {"control_name"}, {"control_rect"}, {"control_text", "control_type"},
               {"selected"}, {"source", "control_title"}, {"nope"}}

\* The property a field is computed from
PropertyOf(field) ==
    CASE field = "control_type" -> "control_type"
      [] field = "control_id" -> "control_id"
      [] field = "control_class" -> "class_name"
      [] field = "control_name" -> "name"
      [] field = "control_rect" -> "rectangle"
      [] field = "control_text" -> "name"
      [] field = "control_title" -> "window_text"
      [] field = "selected" -> "check_state"
      [] field = "source" -> "source"

\* GetLegacyIAccessiblePattern().State of a control that has the pattern: its bits
AccessibleState(check) ==
    CASE check = "checked" -> {"Checked"}
      [] check = "selected" -> {"Selected"}
      [] check = "checked and selected" -> {"Checked", "Selected"}
      [] OTHER -> {}

CheckState(value, tested) == [value |-> value, tested |-> tested]

\* the two tests in the other order
GetCheckStateSelectedFirst(control_item) ==
    LET State == AccessibleState(control_item.check)
    IN  IF control_item.check = "not a control" THEN CheckState(None, <<>>)
        ELSE IF control_item.check = "raises" THEN CheckState(None, <<>>)
        ELSE IF "Selected" \in State THEN CheckState("True", <<"Selected">>)
        ELSE IF control_item.check = "raises at the second read"
        THEN CheckState(None, <<"Selected">>)
        ELSE IF "Checked" \in State THEN CheckState("True", <<"Selected", "Checked">>)
        ELSE CheckState(None, <<"Selected", "Checked">>)

\* get_check_state, lines 727-758: what it returns and the bits it tested, in order
get_check_state(control_item) ==
    LET State == AccessibleState(control_item.check)
    IN  IF control_item.check = "not a control" THEN CheckState(None, <<>>)
        ELSE IF control_item.check = "raises" THEN CheckState(None, <<>>)
        ELSE IF "Checked" \in State THEN CheckState("True", <<"Checked">>)
        ELSE IF control_item.check = "raises at the second read"
        THEN CheckState(None, <<"Checked">>)
        ELSE IF "Selected" \in State THEN CheckState("True", <<"Checked", "Selected">>)
        ELSE CheckState(None, <<"Checked", "Selected">>)

FieldValue(window, field) ==
    CASE field = "selected" -> get_check_state(window).value
      [] field = "source" -> IF "source" \in window.raising THEN "" ELSE "uia"
      [] field = "control_rect" -> "(10, 10, 110, 60)"
      [] OTHER -> "value of " \o PropertyOf(field)

EmptyRecord == [k \in {} |-> ""]

\* the read of source not guarded by its own try
GetControlInfoSourceUnguarded(window, field_list) ==
    LET Wanted(field) == field_list = {} \/ field \in field_list
        R(field) == IF Wanted(field) THEN <<PropertyOf(field)>> ELSE <<>>
        reads == R("control_type") \o R("control_id") \o R("control_class")
                    \o R("control_name") \o <<"rectangle">> \o R("control_text")
                    \o R("control_title") \o R("selected") \o <<"source">>
        Fatal(i) == reads[i] \in window.raising
        failed == \E i \in 1..Len(reads) : Fatal(i)
        first == CHOOSE i \in 1..Len(reads) : Fatal(i) /\ \A j \in 1..(i - 1) : ~Fatal(j)
    IN  IF failed
        THEN [propagates |-> FALSE, reads |-> SubSeq(reads, 1, first),
              control_info |-> EmptyRecord]
        ELSE [propagates |-> FALSE, reads |-> reads,
              control_info |-> [k \in {f \in KnownFields : Wanted(f)}
                                   |-> FieldValue(window, k)]]

\* get_control_info, lines 760-804: the record, and the properties it read in order
get_control_info(window, field_list) ==
    LET Wanted(field) == field_list = {} \/ field \in field_list
        R(field) == IF Wanted(field) THEN <<PropertyOf(field)>> ELSE <<>>
        reads == R("control_type") \o R("control_id") \o R("control_class")
                    \o R("control_name") \o <<"rectangle">> \o R("control_text")
                    \o R("control_title") \o R("selected") \o <<"source">>
        Fatal(i) == reads[i] \in window.raising /\ reads[i] # "source"
        failed == \E i \in 1..Len(reads) : Fatal(i)
        first == CHOOSE i \in 1..Len(reads) : Fatal(i) /\ \A j \in 1..(i - 1) : ~Fatal(j)
    IN  IF failed
        THEN [propagates |-> FALSE, reads |-> SubSeq(reads, 1, first),
              control_info |-> EmptyRecord]
        ELSE [propagates |-> FALSE, reads |-> reads,
              control_info |-> [k \in {f \in KnownFields : Wanted(f)}
                                   |-> FieldValue(window, k)]]

ControlInfoCall(window, field_list) ==
    /\ fn = "none"
    /\ fn' = "get_control_info"
    /\ fn_args' = [window |-> window, field_list |-> field_list]
    /\ fn_out' = get_control_info(window, field_list)
    /\ UNCHANGED <<clickVars, uiaVars, inspVars>>

ControlInfoStep ==
    \E window \in InfoControls, field_list \in FieldLists : ControlInfoCall(window, field_list)

\* get_check_state called on its own
CheckStateCall(control_item) ==
    /\ fn = "none"
    /\ fn' = "get_check_state"
    /\ fn_args' = [window |-> control_item, field_list |-> {"selected"}]
    /\ fn_out' = [propagates |-> FALSE, reads |-> get_check_state(control_item).tested,
                  control_info |-> [k \in {"selected"} |-> get_check_state(control_item).value]]
    /\ UNCHANGED <<clickVars, uiaVars, inspVars>>

CheckStateStep == \E control_item \in InfoControls : CheckStateCall(control_item)

InfoNext ==
    \/ ControlInfoStep
    \/ CheckStateStep
InfoSpec == FnInit /\ [][InfoNext]_vars

IsInfo == fn = "get_control_info"
ReadSet == {fn_out.reads[i] : i \in 1..Len(fn_out.reads)}
RaisedReads == ReadSet \cap fn_args.window.raising

\* C26: with a non-empty field_list only the properties of the requested fields
\* are read from the control.
C26_OnlyRequestedRead ==
    (IsInfo /\ fn_args.field_list # {}) =>
        ReadSet \subseteq {PropertyOf(f) : f \in fn_args.field_list \cap KnownFields}

\* C27 as stated: whenever a read made while the record is built raises, the
\* record returned is empty.
C27_AnyRaiseGivesEmpty ==
    (IsInfo /\ RaisedReads # {}) => fn_out.control_info = EmptyRecord

\* C27: no exception leaves get_control_info and the record is never partial:
\* it is empty when a read of the control type, id, class name, name, rectangle
\* or window text raised, and otherwise has every requested known field, with
\* source "" when reading the source raised and selected unknown when the
\* check state could not be read.
C27_EmptyOrComplete ==
    IsInfo =>
        /\ ~fn_out.propagates
        /\ IF RaisedReads \ {"source"} # {}
           THEN fn_out.control_info = EmptyRecord
           ELSE /\ DOMAIN fn_out.control_info =
                      {f \in KnownFields : fn_args.field_list = {} \/ f \in fn_args.field_list}
                /\ ("source" \in DOMAIN fn_out.control_info
                        /\ "source" \in fn_args.window.raising)
                      => fn_out.control_info["source"] = ""
                /\ ("selected" \in DOMAIN fn_out.control_info
                        /\ fn_args.window.check \in {"raises", "not a control"})
                      => fn_out.control_info["selected"] = None

C27_Witness ==
    /\ IsInfo
    /\ fn_args.field_list = {}
    /\ fn_args.window = [raising |-> {"source"}, check |-> "raises"]
    /\ DOMAIN fn_out.control_info = KnownFields
    /\ fn_out.control_info["source"] = ""

---------------------------------------------------------------------------
(* The state inspector.py keeps between calls: the registry of facades, the   *)
(* process-wide delay marker and the caches of an element info.              *)

MaxStrategies == 3    \* backend strategies built in one run
MaxQueries == 2       \* rectangle queries sent to the provider for one element info

SLOW_MS == 20
WARN_MS == 5
MIN_PAUSE_AFTER_DELAY == 20
MIN_PAUSE == 1

Backends == {"uia", "win32", "other"}

\* BackendFactory.create_backend, lines 37-49: the kind of strategy, or EXC (ValueError)
create_backend(backend) ==
    IF backend = "uia" THEN "UIABackendStrategy"
    ELSE IF backend = "win32" THEN "Win32BackendStrategy"
    ELSE EXC

\* the registry never consulted
NeverRegistered(instances, backend) == FALSE

\* backend in cls._instances, line 601
IsRegistered(instances, backend) == backend \in DOMAIN instances

\* ControlInspectorFacade(backend): __new__ (lines 597-606), then __init__ (lines 608-613)
Construct(backend) ==
    /\ strategies_built < MaxStrategies
    /\ IF IsRegistered(_instances, backend)
       THEN /\ _instances' = [_instances EXCEPT ![backend].backend = backend]
            /\ constructed' = [backend |-> backend, raised |-> FALSE,
                               instance |-> _instances[backend].id]
            /\ UNCHANGED strategies_built
       ELSE IF create_backend(backend) = EXC
       THEN /\ constructed' = [backend |-> backend, raised |-> TRUE, instance |-> 0]
            /\ UNCHANGED <<_instances, strategies_built>>
       ELSE LET instance == [id |-> strategies_built + 1, backend |-> backend,
                             backend_strategy |-> [kind |-> create_backend(backend),
                                                   id |-> strategies_built + 1]]
            IN  /\ _instances' = [b \in DOMAIN _instances \cup {backend} |->
                                     IF b = backend THEN instance ELSE _instances[b]]
                /\ strategies_built' = strategies_built + 1
                /\ constructed' = [backend |-> backend, raised |-> FALSE,
                                   instance |-> instance.id]
    /\ UNCHANGED <<threads, _time_delay_marker, last_timed, paused, element_info, live_rect,
                   provider_queries, rectangle_read, clickVars, fnVars, uiaVars>>

ConstructStep == \E backend \in Backends : Construct(backend)

\* How long a timed accessor call takes, in ms, and what sleep is asked for
Durations == {1, WARN_MS, WARN_MS + 1, SLOW_MS, SLOW_MS + 1}
SleepRequests == {0, WARN_MS, SLOW_MS + 10}
Max(a, b) == IF a > b THEN a ELSE b

\* UIAElementInfoFix._time_wrap, lines 111-132: the marker after a wrapped call
\* that took ms; a call that raises leaves the wrapper before the marker is touched
_time_wrap(marker, ms, raised) ==
    IF raised THEN marker
    ELSE IF ms > SLOW_MS THEN TRUE
    ELSE IF ms > WARN_MS THEN TRUE
    ELSE FALSE

\* UIAElementInfoFix.sleep, lines 101-106: the time slept
sleep(marker, ms) ==
    IF marker THEN Max(MIN_PAUSE_AFTER_DELAY, ms) ELSE Max(MIN_PAUSE, ms)

\* a wrapped accessor other than the rectangle (_get_current_name, ...), lines 134-148
TimedAccessor(ms, raised) ==
    /\ _time_delay_marker' = _time_wrap(_time_delay_marker, ms, raised)
    /\ last_timed' = TimedCall(ms, raised)
    /\ UNCHANGED <<_instances, strategies_built, constructed, threads, paused, element_info,
                   live_rect, provider_queries, rectangle_read, clickVars, fnVars, uiaVars>>

\* UIAElementInfoFix.sleep, lines 101-109
Sleep(ms) ==
    /\ paused' = Pause(ms, sleep(_time_delay_marker, ms), ~paused.toggle)
    /\ _time_delay_marker' = FALSE
    /\ last_timed' = NoTimedCall
    /\ UNCHANGED <<_instances, strategies_built, constructed, threads, element_info, live_rect,
                   provider_queries, rectangle_read, clickVars, fnVars, uiaVars>>

\* the rectangle asked from the provider at every read
GetRectangleUncached(cached_rect) == FALSE

\* self._cached_rect is None, line 161, negated
HasCachedRect(cached_rect) == cached_rect # <<>>

\* UIABackendStrategy._create_uia_wrapper, lines 400-435: an element info filled
\* from the properties the bulk query cached
Discover ==
    /\ element_info' = ElementInfo("discovery", live_rect, "name")
    /\ provider_queries' = 0
    /\ UNCHANGED <<_instances, strategies_built, constructed, threads, _time_delay_marker, last_timed,
                   paused, live_rect, rectangle_read, clickVars, fnVars, uiaVars>>

\* UIAElementInfoFix.__init__, lines 96-99
NewElementInfo ==
    /\ element_info' = ElementInfo("constructor", <<>>, None)
    /\ provider_queries' = 0
    /\ UNCHANGED <<_instances, strategies_built, constructed, threads, _time_delay_marker, last_timed,
                   paused, live_rect, rectangle_read, clickVars, fnVars, uiaVars>>

\* the rectangle property, lines 160-167, with _get_current_rectangle, lines 150-158
ReadRectangle(ms, raised) ==
    IF HasCachedRect(element_info._cached_rect)
    THEN /\ rectangle_read' = RectangleRead(RectOk(element_info._cached_rect), live_rect,
                                            ~rectangle_read.toggle)
         /\ UNCHANGED <<element_info, provider_queries, _time_delay_marker, last_timed>>
    ELSE /\ provider_queries < MaxQueries
         /\ provider_queries' = provider_queries + 1
         /\ _time_delay_marker' = _time_wrap(_time_delay_marker, ms, raised)
         /\ last_timed' = TimedCall(ms, raised)
         /\ IF raised
            THEN /\ rectangle_read' = RectangleRead(RectExc, live_rect, ~rectangle_read.toggle)
                 /\ UNCHANGED element_info
            ELSE /\ rectangle_read' = RectangleRead(RectOk(live_rect), live_rect,
                                                         ~rectangle_read.toggle)
                 /\ element_info' = [element_info EXCEPT !._cached_rect = live_rect]

ReadRectangleStep ==
    /\ \E ms \in Durations, raised \in BOOLEAN : ReadRectangle(ms, raised)
    /\ UNCHANGED <<_instances, strategies_built, constructed, threads, paused, live_rect,
                   clickVars, fnVars, uiaVars>>

\* the live tree changes under the element
LiveChange ==
    /\ live_rect' \in {ControlRect, MovedRect} \ {live_rect}
    /\ UNCHANGED <<_instances, strategies_built, constructed, threads, _time_delay_marker, last_timed,
                   paused, element_info, provider_queries, rectangle_read,
                   clickVars, fnVars, uiaVars>>

TimedAccessorStep == \E ms \in Durations, raised \in BOOLEAN : TimedAccessor(ms, raised)
SleepStep == \E ms \in SleepRequests : Sleep(ms)

InspInit == ClickIdle /\ FnIdle /\ UiaIdle /\ InspIdle
InspNext ==
    \/ ConstructStep
    \/ TimedAccessorStep
    \/ SleepStep
    \/ Discover
    \/ NewElementInfo
    \/ ReadRectangleStep
    \/ LiveChange
InspSpec == InspInit /\ [][InspNext]_vars

\* ---- C23: one facade instance per backend identifier ----
Registered == DOMAIN _instances

\* every registered instance carries its own identifier and a strategy of the
\* matching kind, built for it alone; no two identifiers share an instance
OneInstancePerBackend ==
    /\ \A b \in Registered :
          /\ _instances[b].backend = b
          /\ _instances[b].backend_strategy.kind = create_backend(b)
    /\ \A b1, b2 \in Registered :
          b1 # b2 => /\ _instances[b1].id # _instances[b2].id
                     /\ _instances[b1].backend_strategy.id # _instances[b2].backend_strategy.id
    /\ strategies_built = Cardinality(Registered)

\* a construction with a registered identifier hands back the registered
\* instance unchanged and builds no strategy; no instance ever leaves the registry
SeenBackendReusesInstance ==
    /\ \A b \in Registered : b \in DOMAIN _instances' /\ _instances'[b] = _instances[b]
    /\ \A b \in Registered :
          (constructed' # constructed /\ constructed'.backend = b)
              => /\ ~constructed'.raised
                 /\ constructed'.instance = _instances[b].id
                 /\ strategies_built' = strategies_built

\* C23: at most one facade instance exists per backend identifier: a construction
\* with an identifier seen before returns the existing instance with the strategy
\* it already has, and different identifiers give different instances
C23_OneFacadePerBackend == []OneInstancePerBackend /\ [][SeenBackendReusesInstance]_vars

C23_Witness ==
    /\ Registered = {"uia", "win32"}
    /\ constructed # NoArgs
    /\ constructed.backend = "uia"
    /\ constructed.instance = _instances["uia"].id
    /\ _instances["win32"].id > _instances["uia"].id

\* ---- C28: the pause of sleep and the delay marker ----
\* a sleep pauses for the floor the marker selects and leaves the marker down
SleepHonoursMarker ==
    (paused' # paused) =>
        /\ paused'.slept = (IF _time_delay_marker
                               THEN Max(MIN_PAUSE_AFTER_DELAY, paused'.requested)
                               ELSE Max(MIN_PAUSE, paused'.requested))
        /\ ~_time_delay_marker'

\* a sleep that pauses longer than asked, up to the 20 ms floor, follows a timed
\* accessor call that was slow
ForcedPauseFollowsSlowCall ==
    (paused' # paused /\ paused'.requested < MIN_PAUSE_AFTER_DELAY
                      /\ paused'.slept >= MIN_PAUSE_AFTER_DELAY)
        => last_timed.ms > WARN_MS

\* C28: sleep(ms) pauses max(20, ms) when the delay marker is set and max(1, ms)
\* otherwise and leaves the marker false; a pause of at least 20 ms is forced only
\* when the most recent timed accessor call since the last sleep was slow
C28_ForcedPauseOnlyAfterSlowCall ==
    [][SleepHonoursMarker /\ ForcedPauseFollowsSlowCall]_vars

\* the part of C28 about sleep alone
C28_SleepFloors == [][SleepHonoursMarker]_vars

\* ---- C29: the rectangle of an element info is first-read-wins ----
\* a read of a rectangle already held returns it, asks the provider nothing and
\* keeps it, whatever the live tree shows by then
CachedRectangleWins ==
    (rectangle_read' # rectangle_read /\ element_info._cached_rect # <<>>)
        => /\ rectangle_read'.value = RectOk(element_info._cached_rect)
           /\ provider_queries' = provider_queries
           /\ element_info' = element_info

\* a rectangle once held stays the same until another element info takes its place
CachedRectangleKept ==
    (element_info._cached_rect # <<>> /\ element_info'._cached_rect # element_info._cached_rect)
        => (provider_queries' = 0 /\ rectangle_read' = rectangle_read)

\* an element info made at discovery holds rectangle and name, and no provider
\* query is ever made for it
DiscoveredIsPrefilled ==
    element_info.origin = "discovery"
        => /\ element_info._cached_rect # <<>>
           /\ element_info._cached_name # None
           /\ provider_queries = 0

\* C29: once the rectangle of a UIAElementInfoFix has been computed or pre-filled at
\* discovery, every later read returns that value and never queries the provider,
\* whatever the live tree does; an element info from the bulk query needs no
\* provider query for rectangle or name
C29_RectangleFirstReadWins ==
    []DiscoveredIsPrefilled /\ [][CachedRectangleWins /\ CachedRectangleKept]_vars

\* a rectangle computed at the first read is returned again after the live tree moved
C29_Witness ==
    /\ element_info.origin = "constructor"
    /\ element_info._cached_rect # <<>>
    /\ element_info._cached_rect # live_rect
    /\ provider_queries = 1
    /\ rectangle_read.value = RectOk(element_info._cached_rect)
    /\ rectangle_read.live # element_info._cached_rect

\* ---- C30: when the grid search consults the stability checker ----
\* a failed grid probe after which line 258 holds and a checker is there to ask
ConsultationStep ==
    /\ pc = "grid" /\ pc' = "grid"
    /\ clicks' = clicks + 1
    /\ element_checker # <<>>
    /\ consecutive_failures + 1 >= config.element_stability_check_count

\* Failed probes since the consultation before, this one included: the counter is
\* back at 0 after a stable answer and is left at N or more after an unstable one
\* (line 262), from where every failed probe consults again
FailuresSinceConsultation ==
    IF consecutive_failures >= config.element_stability_check_count
    THEN 1
    ELSE consecutive_failures + 1

\* C30: the stability checker is first consulted after the N-th failed grid probe,
\* a stable answer resets the counter to 0, and no consultation comes after fewer
\* than N failed probes since the consultation before
C30_ConsultEveryNFailures ==
    [][ConsultationStep =>
          FailuresSinceConsultation >= config.element_stability_check_count]_vars

\* the part of C30 up to the first unstable answer
C30_UntilUnstable ==
    [][(ConsultationStep /\ ~unstable_reported) =>
          /\ consecutive_failures + 1 = config.element_stability_check_count
          /\ (consecutive_failures' = 0 \/ unstable_reported')]_vars

\* ---- C31: the check state of a control ----
IsCheck == fn = "get_check_state"
NoCheckState == {"raises", "raises at the second read", "not a control"}

\* what the control shows, bit by bit
HasBit(bit) == bit \in AccessibleState(fn_args.window.check)

\* the 'checked' bit is tested first, the 'selected' bit only when 'checked' is unset
CheckedBeforeSelected ==
    IsCheck =>
        /\ fn_out.reads \in {<<>>, <<"Checked">>, <<"Checked", "Selected">>}
        /\ (Len(fn_out.reads) = 2) => ~HasBit("Checked")
        /\ fn_out.control_info["selected"] =
              (IF HasBit("Checked") \/ HasBit("Selected") THEN "True" ELSE None)

\* a control without the pattern, or not of the expected kind, gives the unknown
\* value and no exception, asked directly or through get_control_info
UnknownWithoutRaising ==
    /\ (IsCheck /\ fn_args.window.check \in NoCheckState) =>
            (~fn_out.propagates /\ fn_out.control_info["selected"] = None)
    /\ (IsInfo /\ fn_args.window.check \in NoCheckState) =>
            /\ ~fn_out.propagates
            /\ ("selected" \in DOMAIN fn_out.control_info) =>
                  fn_out.control_info["selected"] = None

\* C31: the check-state lookup tests the 'checked' bit first and the 'selected' bit
\* only when 'checked' is unset; a control that does not expose the pattern, or is
\* not of the expected kind, resolves to the unknown value without raising
C31_CheckedThenSelected == CheckedBeforeSelected /\ UnknownWithoutRaising

C31_Witness ==
    /\ IsCheck
    /\ fn_args.window.check = "selected"
    /\ fn_out.reads = <<"Checked", "Selected">>
    /\ fn_out.control_info["selected"] = "True"

C31_WitnessUnknown ==
    /\ IsInfo
    /\ fn_args.window.check = "not a control"
    /\ "selected" \in DOMAIN fn_out.control_info
    /\ fn_out.control_info["selected"] = None

---------------------------------------------------------------------------
(* ExcelWinCOMReceiver.reorder_columns (excelclient.py), applied once to      *)
(* every small sheet and desired order.                                      *)

MaxCols == 3          \* columns of the used range
MaxOrder == 2         \* names in desired_order
Width == MaxCols + MaxOrder

\* A column of the sheet: its cell in row 1 and the cell below
Column(header, data) == [header |-> header, data |-> data]
BlankColumn == Column(None, None)
HeaderValues == {None, " ", "A", "B"}
DataValues == {None, "1"}
Columns == {Column(h, d) : h \in HeaderValues, d \in DataValues}
Blanks(n) == [i \in 1..n |-> BlankColumn]

\* The sheets: a used range of MaxCols columns, blank beyond it
Sheets == {cols \o Blanks(MaxOrder) : cols \in [1..MaxCols -> Columns]}
HeaderNames == {"A", "B", "C"}
DesiredOrders == SeqsUpTo(HeaderNames, MaxOrder)
FailPoints == {"none", "Sheets", "write"}

\* ws.UsedRange: start_col + total_cols - 1, lines 194-197
LastCol(sheet) ==
    LET used == {i \in 1..Len(sheet) : sheet[i] # BlankColumn}
    IN  IF used = {} THEN 1 ELSE CHOOSE i \in used : \A j \in used : j <= i

\* cell_value and str(cell_value).strip(), line 204, negated
IsEmptyHeader(cell_value) == cell_value = None \/ cell_value = " "

\* empty_columns, lines 202-207
EmptyColumns(sheet) == {col \in 1..LastCol(sheet) : IsEmptyHeader(sheet[col].header)}
\* the columns of non_empty_columns, lines 202-205
NonEmptyColumns(sheet) == {col \in 1..LastCol(sheet) : ~IsEmptyHeader(sheet[col].header)}

\* name_to_col, line 212: the last column of a name wins
NameToCol(sheet, name) ==
    LET named == {col \in NonEmptyColumns(sheet) : sheet[col].header = name}
    IN  IF named = {} THEN 0 ELSE CHOOSE col \in named : \A other \in named : other <= col

\* column_data, lines 214-228: the columns read for the names found, in desired order
ColumnData(sheet, desired_order) ==
    LET found == SelectSeq(desired_order, LAMBDA name : NameToCol(sheet, name) # 0)
    IN  [k \in 1..Len(found) |-> sheet[NameToCol(sheet, found[k])]]

\* ws.Columns(col_index).Delete() for every non-empty column from the right,
\* lines 230-231: the columns to the right of a deleted one move left
DeleteNonEmpty(sheet) ==
    LET kept == SelectSeq(sheet, LAMBDA column : IsEmptyHeader(column.header))
    IN  kept \o Blanks(Len(sheet) - Len(kept))

\* get_nth_non_empty_position, lines 490-505
get_nth_non_empty_position(target_idx, empty_cols) ==
    CHOOSE col \in 1..Width :
        /\ col \notin empty_cols
        /\ Cardinality((1..col) \ empty_cols) = target_idx

\* reorder_columns, lines 184-245: the sheet it leaves, the column indices it wrote
\* to and whether it reported success
reorder_columns(sheet, desired_order, fail_at) ==
    LET empty_columns == EmptyColumns(sheet)
        column_data == ColumnData(sheet, desired_order)
        deleted == DeleteNonEmpty(sheet)
        InsertPos(k) == get_nth_non_empty_position(k, empty_columns)
        positions == {InsertPos(k) : k \in 1..Len(column_data)}
        written == [col \in 1..Len(sheet) |->
                       IF col \in positions
                       THEN column_data[CHOOSE k \in 1..Len(column_data) : InsertPos(k) = col]
                       ELSE deleted[col]]
    IN  IF fail_at = "Sheets"
        THEN [sheet |-> sheet, written |-> {}, success |-> FALSE]
        ELSE IF fail_at = "write" /\ Len(column_data) > 0
        THEN [sheet |-> deleted, written |-> {}, success |-> FALSE]
        ELSE [sheet |-> written, written |-> positions, success |-> TRUE]

ReorderCall(sheet, desired_order, fail_at) ==
    /\ fn = "none"
    /\ fn' = "reorder_columns"
    /\ fn_args' = [sheet |-> sheet, desired_order |-> desired_order, fail_at |-> fail_at]
    /\ fn_out' = reorder_columns(sheet, desired_order, fail_at)
    /\ UNCHANGED <<clickVars, uiaVars, inspVars>>

ReorderStep ==
    /\ fn = "none"
    /\ \E sheet \in Sheets, desired_order \in DesiredOrders, fail_at \in FailPoints :
          ReorderCall(sheet, desired_order, fail_at)

ExcelNext == ReorderStep
ExcelSpec == FnInit /\ [][ExcelNext]_vars

IsReorder == fn = "reorder_columns"

\* C32: every column index whose header cell was empty before the call has an
\* empty header after it, and reordered data is written only to column indices
\* that were not empty columns
C32_EmptyColumnsStay ==
    IsReorder =>
        \A col \in 1..Width :
            IsEmptyHeader(fn_args.sheet[col].header) =>
                /\ IsEmptyHeader(fn_out.sheet[col].header)
                /\ col \notin fn_out.written

\* the part of C32 that fails without a repeated name: the cells of a column
\* without header stay where they were
C32_EmptyColumnsKeepContent ==
    (IsReorder /\ fn_out.success) =>
        \A col \in EmptyColumns(fn_args.sheet) : fn_out.sheet[col] = fn_args.sheet[col]

\* How many times a column, header and data, stands in a sheet
ColumnCount(sheet, column) == Cardinality({col \in 1..Len(sheet) : sheet[col] = column})
SameNonEmptyColumns(before, after) ==
    \A column \in Columns :
        ~IsEmptyHeader(column.header) =>
            ColumnCount(before, column) = ColumnCount(after, column)

\* C37: reorder_columns only reorders: after a successful call the sheet holds the
\* same multiset of non-empty columns, header plus data, as before, whatever
\* desired_order names
C37_OnlyReorders ==
    (IsReorder /\ fn_out.success) => SameNonEmptyColumns(fn_args.sheet, fn_out.sheet)

\* the part of C37 that holds: a desired order that names every header once, on a
\* sheet without repeated headers
NamesEveryHeaderOnce(sheet, desired_order) ==
    /\ \A i, j \in 1..Len(desired_order) : desired_order[i] = desired_order[j] => i = j
    /\ {desired_order[i] : i \in 1..Len(desired_order)} =
           {sheet[col].header : col \in NonEmptyColumns(sheet)}
    /\ \A c1, c2 \in NonEmptyColumns(sheet) : sheet[c1].header = sheet[c2].header => c1 = c2
C37_PermutationReorders ==
    (IsReorder /\ fn_out.success
              /\ NamesEveryHeaderOnce(fn_args.sheet, fn_args.desired_order)) =>
        SameNonEmptyColumns(fn_args.sheet, fn_out.sheet)

---------------------------------------------------------------------------
(* Claims about what smart_click_with_retry records of each attempt *)

\* The point a click with these parameters lands on: the fractions x and y of the
\* application window, whose rectangle is WindowRect
IsClickedPoint(params, x, y) ==
    /\ x * params.x.den = WindowRect[1] * params.x.den + params.x.num * width(WindowRect)
    /\ y * params.y.den = WindowRect[2] * params.y.den + params.y.num * height(WindowRect)

ClickedAtFractions ==
    /\ clicks >= 1
    /\ Len(click_attempts) >= 1
    /\ last_click.params.x.kind = "num"
    /\ last_click.params.y.kind = "num"

\* C33: every ClickAttempt carries the absolute screen coordinates of the point the
\* click primitive was asked to click in that attempt, the original attempt and
\* the probes whose point could not be translated included
C33_AttemptCarriesClickedPoint ==
    ClickedAtFractions => IsClickedPoint(last_click.params, LastAttempt.x, LastAttempt.y)

\* the part of C33 that holds: a grid probe whose parameters were rewritten for
\* the probe point
C33_TranslatedProbes ==
    (ClickedAtFractions /\ Len(click_attempts) >= 2 /\ last_click.params # request.params)
        => IsClickedPoint(last_click.params, LastAttempt.x, LastAttempt.y)

---------------------------------------------------------------------------
(* The stability check of smart_click_with_retry on a control whose rectangle *)
(* is read through the cache of its UIAElementInfoFix (control.rectangle()    *)
(* returns element_info.rectangle).                                          *)

\* ElementStabilityChecker.__init__, lines 106-113, on the control of element_info:
\* the baseline is what the rectangle property answers
CaptureBaseline(ms, raised) ==
    /\ fn = "none"
    /\ ReadRectangle(ms, raised)
    /\ fn' = "baseline"
    /\ fn_args' = [checker |-> ElementStabilityChecker(TRUE, rectangle_read'.value),
                   live |-> live_rect]
    /\ fn_out' = fn_out
    /\ UNCHANGED <<_instances, strategies_built, constructed, threads, paused, live_rect,
                   clickVars, uiaVars>>

\* _should_continue_retry, lines 341-345: a consultation reads the rectangle again
Consult(ms, raised) ==
    /\ fn \in {"baseline", "is_element_stable"}
    /\ ReadRectangle(ms, raised)
    /\ fn' = "is_element_stable"
    /\ fn_out' = [stable |-> _should_continue_retry(<<fn_args.checker>>, rectangle_read'.value),
                  live |-> live_rect]
    /\ fn_args' = fn_args
    /\ UNCHANGED <<_instances, strategies_built, constructed, threads, paused, live_rect,
                   clickVars, uiaVars>>

TargetDiscovered == fn = "none" /\ Discover
TargetConstructed == fn = "none" /\ NewElementInfo
CaptureBaselineStep == \E ms \in Durations, raised \in BOOLEAN : CaptureBaseline(ms, raised)
ConsultStep == \E ms \in Durations, raised \in BOOLEAN : Consult(ms, raised)

CachedStabilityNext ==
    \/ TargetDiscovered
    \/ TargetConstructed
    \/ LiveChange
    \/ CaptureBaselineStep
    \/ ConsultStep
CachedStabilitySpec == InspInit /\ [][CachedStabilityNext]_vars

\* C34: for a target control produced by the bulk query, if the live rectangle of
\* the control changed after the baseline was captured, the next stability
\* consultation reports the control unstable
C34_LiveChangeReportedUnstable ==
    (fn = "is_element_stable" /\ element_info.origin = "discovery"
                              /\ fn_out.live # fn_args.live)
        => ~fn_out.stable

\* what the consultation answers instead: stable whenever the baseline was read,
\* since both reads give the rectangle held since discovery
C34_CachedTargetAlwaysStable ==
    (fn = "is_element_stable" /\ element_info.origin = "discovery") => fn_out.stable

---------------------------------------------------------------------------
(* ControlInspectorFacade.__new__ entered by several threads: the statements of   *)
(* lines 601-606 of each thread interleave with those of the other.           *)

\* line 601: if backend not in cls._instances
NewCheck(t, backend) ==
    /\ threads[t].at = "idle"
    /\ threads' = [threads EXCEPT ![t] =
                      Thread(IF IsRegistered(_instances, backend) THEN "return" ELSE "build",
                             backend, 0, 0)]
    /\ UNCHANGED <<_instances, strategies_built>>

\* lines 602-604: the instance and its strategy are built
NewBuild(t) ==
    /\ threads[t].at = "build"
    /\ strategies_built' = strategies_built + 1
    /\ threads' = [threads EXCEPT ![t].at = "store",
                                  ![t].instance =
                                      [id |-> strategies_built + 1,
                                       backend |-> threads[t].backend,
                                       backend_strategy |->
                                           [kind |-> create_backend(threads[t].backend),
                                            id |-> strategies_built + 1]]]
    /\ UNCHANGED _instances

\* line 605: cls._instances[backend] = instance
NewStore(t) ==
    /\ threads[t].at = "store"
    /\ _instances' = [b \in DOMAIN _instances \cup {threads[t].backend} |->
                         IF b = threads[t].backend THEN threads[t].instance
                         ELSE _instances[b]]
    /\ threads' = [threads EXCEPT ![t].at = "return"]
    /\ UNCHANGED strategies_built

\* line 606: return cls._instances[backend]
NewReturn(t) ==
    /\ threads[t].at = "return"
    /\ threads' = [threads EXCEPT ![t].at = "done",
                                  ![t].returned = _instances[threads[t].backend]]
    /\ UNCHANGED <<_instances, strategies_built>>

ThreadBackends == {"uia", "win32"}
\* what __new__ leaves alone
ThreadFrame ==
    UNCHANGED <<constructed, _time_delay_marker, last_timed, paused, element_info,
                live_rect, provider_queries, rectangle_read, clickVars, fnVars, uiaVars>>

NewCheckStep == (\E t \in Threads, backend \in ThreadBackends : NewCheck(t, backend)) /\ ThreadFrame
NewBuildStep == (\E t \in Threads : NewBuild(t)) /\ ThreadFrame
NewStoreStep == (\E t \in Threads : NewStore(t)) /\ ThreadFrame
NewReturnStep == (\E t \in Threads : NewReturn(t)) /\ ThreadFrame

ThreadsNext ==
    \/ NewCheckStep
    \/ NewBuildStep
    \/ NewStoreStep
    \/ NewReturnStep
ThreadsSpec == InspInit /\ [][ThreadsNext]_vars

ThreadsDone(ts) == \A t \in ts : threads[t].at = "done"
AskedFor(backend) == {t \in Threads : threads[t].backend = backend}

\* C35: two threads that ask concurrently for the facade of the same identifier,
\* not yet registered, receive the same instance in every interleaving, and one
\* backend strategy is built for that identifier
C35_ConcurrentSameInstance ==
    \A backend \in ThreadBackends :
        \A t1, t2 \in AskedFor(backend) :
            (t1 # t2 /\ AskedFor(backend) = {t1, t2} /\ ThreadsDone(Threads)) =>
                /\ threads[t1].returned = threads[t2].returned
                /\ strategies_built = Cardinality({threads[t].backend : t \in Threads})

---------------------------------------------------------------------------
(* save_as of the Word and Excel receivers (wordclient.py, excelclient.py):   *)
(* the choice of a free file name and the chain of save methods, applied     *)
(* once to every small directory content and host behaviour.                 *)

MaxExisting == 2      \* counter suffixes _1.._MaxExisting that may be taken already

Receivers == {"word", "excel"}
FileExts == {"", ".pdf", ".csv"}
FILE_NAME == "report"

\* if not file_ext: the default extension (wordclient.py 236-237, excelclient.py 344-345)
DefaultExt(receiver) == IF receiver = "word" THEN ".docx" ELSE ".xlsx"
ExtOf(receiver, file_ext) == IF file_ext = "" THEN DefaultExt(receiver) ELSE file_ext

\* f"{file_name}_{counter}" + file_ext, and the base name as counter 0
NameWithCounter(file_name, counter, ext) ==
    IF counter = 0 THEN file_name \o ext ELSE file_name \o "_" \o str(counter) \o ext

\* f"UFO_Word_Export_{int(time.time())}.docx" in Documents, at the second of the call
FallbackPath(receiver) ==
    IF receiver = "word" THEN "UFO_Word_Export_T.docx" ELSE "UFO_Excel_Export_T.xlsx"

\* What the directories may hold before the call
ExistingSets(receiver, ext) ==
    SUBSET ({NameWithCounter(FILE_NAME, k, ext) : k \in 0..MaxExisting}
                \cup {FallbackPath(receiver)})

\* while os.path.exists(file_path), wordclient.py 257-264, excelclient.py 361-368
RECURSIVE UniquePath(_, _, _, _)
UniquePath(existing, file_name, ext, counter) ==
    IF NameWithCounter(file_name, counter, ext) \in existing
    THEN UniquePath(existing, file_name, ext, counter + 1)
    ELSE NameWithCounter(file_name, counter, ext)

HostCall(method, path) == [method |-> method, path |-> path]

\* _attempt_save_with_fallback: the methods that hand a path to the host, in the
\* order tried (wordclient.py 283-370, excelclient.py 380-452). The last method of
\* the Excel receiver fails on the name time before any host call (line 447).
SaveMethods(receiver, ext) ==
    IF receiver = "word"
    THEN <<"SaveAs2", "SaveAs", "SaveAs2 auto-format">>
            \o (IF ext \in {".pdf", ".xps"} THEN <<"ExportAsFixedFormat">> ELSE <<>>)
            \o <<"copy SaveAs2", "fallback SaveAs2">>
    ELSE <<"SaveAs", "SaveAs auto-format">>
            \o (IF ext \in {".pdf", ".xps"} THEN <<"ExportAsFixedFormat">> ELSE <<>>)
            \o (IF ext \in {".csv", ".txt"} THEN <<"to_csv">> ELSE <<>>)

PathOf(receiver, method, file_path) ==
    IF method = "fallback SaveAs2" THEN FallbackPath(receiver) ELSE file_path

\* save_as: the path selected and the host calls made when the first first_ok - 1
\* methods raise
save_as(receiver, file_ext, existing, first_ok) ==
    LET ext == ExtOf(receiver, file_ext)
        file_path == UniquePath(existing, FILE_NAME, ext, 0)
        methods == SaveMethods(receiver, ext)
        tried == Take(methods, first_ok)
    IN  [file_path |-> file_path,
         host_calls |-> [i \in 1..Len(tried) |->
                            HostCall(tried[i], PathOf(receiver, tried[i], file_path))],
         saved |-> first_ok <= Len(methods)]

SaveAsCall(receiver, file_ext, existing, first_ok) ==
    /\ fn' = "save_as"
    /\ fn_args' = [receiver |-> receiver, file_ext |-> file_ext, existing |-> existing,
                   first_ok |-> first_ok]
    /\ fn_out' = save_as(receiver, file_ext, existing, first_ok)
    /\ UNCHANGED <<clickVars, uiaVars, inspVars>>

SaveAsStep ==
    /\ fn = "none"
    /\ \E receiver \in Receivers, file_ext \in FileExts :
          \E existing \in ExistingSets(receiver, ExtOf(receiver, file_ext)),
             first_ok \in 1..(Len(SaveMethods(receiver, ExtOf(receiver, file_ext))) + 1) :
              SaveAsCall(receiver, file_ext, existing, first_ok)

SaveNext == SaveAsStep
SaveSpec == FnInit /\ [][SaveNext]_vars

IsSave == fn = "save_as"

\* the name save_as is to select: file_name, or file_name_k for the smallest free k >= 1
IsSmallestFree(path, existing, ext) ==
    \E k \in 0..(MaxExisting + 1) :
        /\ path = NameWithCounter(FILE_NAME, k, ext)
        /\ path \notin existing
        /\ \A j \in 0..(k - 1) : NameWithCounter(FILE_NAME, j, ext) \in existing

\* C36: save_as never overwrites a file that was there: every path handed to a
\* host save or export call, on any branch of the fallback chain, did not exist
\* when save_as selected it, and is file_name or file_name_k for the smallest free k
C36_NeverOverwrites ==
    IsSave =>
        \A i \in 1..Len(fn_out.host_calls) :
            /\ fn_out.host_calls[i].path \notin fn_args.existing
            /\ IsSmallestFree(fn_out.host_calls[i].path, fn_args.existing,
                              ExtOf(fn_args.receiver, fn_args.file_ext))

\* the part of C36 that holds: the path selected before the chain, and every call
\* that is handed it
C36_SelectedPathIsFree ==
    IsSave =>
        /\ IsSmallestFree(fn_out.file_path, fn_args.existing,
                          ExtOf(fn_args.receiver, fn_args.file_ext))
        /\ \A i \in 1..Len(fn_out.host_calls) :
              fn_out.host_calls[i].method # "fallback SaveAs2"
                  => fn_out.host_calls[i].path = fn_out.file_path

====
